---------------------------- MODULE Spec2Model ----------------------------
(***************************************************************************)
(* humthreads: threads with cooperative shutdown, a process-wide registry  *)
(* of running threads and single-use join handles.                         *)
(*                                                                         *)
(* One "thread" t of the model is one Builder::spawn call: the worker (the *)
(* OS thread running the closure of builder.rs:72-80) and the parent-side  *)
(* handle (Thread, or MapThread after map()) that spawn returned for it.   *)
(* A handle is not Sync, so at most one call is in progress on a handle;   *)
(* calls on different handles and the workers interleave freely.           *)
(*                                                                         *)
(* The crossbeam channel and std::thread are modelled by their documented  *)
(* behaviour: a bounded(1) channel is a message count plus the liveness of *)
(* its two halves; JoinHandle::join returns once the OS thread terminated. *)
(***************************************************************************)
EXTENDS Integers, FiniteSets, Sequences, TLC

\* Number of Builder::spawn calls of a program that makes every kind of call
\* on its handles.
MaxThreads == 1
\* Worker functions return a value in 1..MaxValue (or panic).
MaxValue == 2
\* Capacity of the join-check channel: crossbeam_channel::bounded(1).
Capacity == 1

\* Number of Builder::spawn calls of a program that waits on its handles
\* through Select sets: the largest number of handles in one set.
MaxSelect == 2
\* Largest number of scoped_activity guards a worker holds at a time.
MaxGuards == 2
\* Largest number of ThreadScopes a test obtains from one MockThreadScope.
MaxScopes == 2

Threads == 1..MaxThreads
Values == 1..MaxValue
\* The threads whose handles are waited on together through a Select set.
SelectThreads == 1..MaxSelect
AllThreads == Threads \cup SelectThreads
\* The activity texts the workers report.
Texts == {"A", "B"}

VARIABLES
    wpc,              \* worker: position of the spawned OS thread in builder.rs:72-80
    outcome,          \* worker: how f(scope) ended (value or panic payload)
    THREADS_REGISTRY, \* registry.rs:11  HashMap<u64, RegisteredStatus> under its Mutex
    activity,         \* status.rs:9     the Arc<Mutex<Option<String>>> of each thread
    shutdown,         \* builder.rs:68   the Arc<AtomicBool> of each thread
    join_check,       \* builder.rs:65   the bounded(1) channel of each thread
    handle,           \* parent: which handle type the parent holds for the thread
    join,             \* Thread.join / the JoinHandle captured by map(): Option is Some
    map_join,         \* MapThread.join: Option<MapThreadFn> is Some
    call,             \* parent: the call in progress on the handle and its return value
    join_called,      \* history: a join() call was made on the handle before
    joined,           \* history: a call on the handle returned the worker's outcome
    requested,        \* history: request_shutdown() was called on the handle
    mock_shutdown,    \* test_support.rs:12  MockThreadScope.shutdown
    config,           \* input: the names the program gives to the Builder of each thread
    scope_guards,     \* worker: the ThreadScopeActivityGuards alive, in creation order
    ready_reported,   \* history: a Select::ready wait reported the handle
    scope_dropped,    \* worker: the worker function has dropped its ThreadScope
    registry_lock,    \* registry.rs:11  the Mutex of THREADS_REGISTRY: who holds it
    observer,         \* a thread calling registered_threads(): its position and result
    activity_lock,    \* status.rs:9     the Mutex of each activity cell: who holds it
    mock_scopes       \* test_support.rs:23  the ThreadScopes MockThreadScope::scope() gave

vars == <<wpc, outcome, THREADS_REGISTRY, activity, shutdown, join_check, handle,
          join, map_join, call, join_called, joined, requested, mock_shutdown,
          config, scope_guards, ready_reported, scope_dropped, registry_lock,
          observer, activity_lock, mock_scopes>>

workerVars == <<wpc, outcome, THREADS_REGISTRY, activity>>
handleVars == <<handle, join, map_join, call, join_called, joined>>
scopeVars == <<config, scope_guards, scope_dropped>>
lockVars == <<registry_lock, observer, activity_lock>>
ghostVars == <<ready_reported>>

-----------------------------------------------------------------------------
(* Values *)

NoOutcome == [kind |-> "none", v |-> 0]
Returned(v) == [kind |-> "ok", v |-> v]
Panicked == [kind |-> "panic", v |-> 0]

\* Result<T>: Ok(v) or Err(ErrorKind), error.rs:49-61.
Ok(v) == [kind |-> "Ok", v |-> v]
Err(k) == [kind |-> k, v |-> 0]
NoResult == [kind |-> "none", v |-> 0]

ErrorKind == {"Join", "JoinTimeout", "JoinedAlready", "Spawn"}

\* The FnMut(T) -> U given to map(): any function; this one has no fixed point
\* on Values, so a transformed result differs from an untransformed one.
Transform(v) == v + MaxValue

\* An id counter that hands the same id to every thread.
ThreadId_reused(t) == 2

\* std::thread::current().id() in thread t: std takes ThreadIds from a
\* process-wide counter and never reuses one. 1 is the id of the main thread;
\* the spawned thread t has t + 1.
ThreadId(t) == t + 1

\* DefaultHasher::new(), id.hash(&mut hasher), hasher.finish(): SipHash-1-3
\* with the keys (0, 0) of the id's eight little-endian bytes. The u64 values
\* are written in hexadecimal, for the ids the threads of the model can have.
DefaultHasher_finish(id) ==
    CASE id = 1 -> "1e9f734161d62dd9"
      [] id = 2 -> "a4d31070d122b816"
      [] id = 3 -> "fd8c671699409cfa"
      [] id = 4 -> "55d754f7c9ed6591"
      [] id = 5 -> "db30eb0519197f1c"
      [] id = 6 -> "fbd8f25ee5d0c5a8"

\* current_thread_id(): the hash of the std ThreadId of the calling thread.
current_thread_id(t) == DefaultHasher_finish(ThreadId(t))

\* The names the program gives for thread t: the argument of Builder::new and
\* the argument of Builder::full_name, NoFullName when full_name is not called.
NoFullName == << >>
ShortName(t) == <<"short", t>>
FullName(t) == <<"full", t>>

Configs(t) ==
    {[name |-> ShortName(t), full_name |-> f] : f \in {NoFullName, FullName(t)}}

\* Thread 1 sets a full name, the others keep the default.
DefaultConfig(t) ==
    [name |-> ShortName(t), full_name |-> IF t = 1 THEN FullName(t) ELSE NoFullName]

\* Builder::new(name): full_name defaults to the name.
Builder_new(name) == [name |-> name, full_name |-> name]

\* Builder::full_name(self, name)
Builder_full_name(builder, name) == [builder EXCEPT !.full_name = name]

\* The Builder on which the program calls spawn for thread t.
Builder(t) ==
    IF config[t].full_name = NoFullName
    THEN Builder_new(config[t].name)
    ELSE Builder_full_name(Builder_new(config[t].name), config[t].full_name)

BuilderName(t) == Builder(t).name
BuilderFullName(t) == Builder(t).full_name

\* A status built with its two names in the other order.
RegisteredStatus_new_swapped(t) ==
    [name |-> BuilderName(t), short_name |-> BuilderFullName(t), activity |-> t]

\* RegisteredStatus::new(full_name, name): the activity cell is referred to by
\* the thread that owns it.
RegisteredStatus_new(t) ==
    [name |-> BuilderFullName(t), short_name |-> BuilderName(t), activity |-> t]

-----------------------------------------------------------------------------
(* The registry *)

\* An insert that is lost.
register_thread_skip(reg, id, status) == reg

\* register_thread: HashMap::insert under the registry lock.
register_thread(reg, id, status) ==
    [k \in (DOMAIN reg) \cup {id} |-> IF k = id THEN status ELSE reg[k]]

\* A remove that is lost.
deregister_thread_keep(reg, id) == reg

\* deregister_thread: HashMap::remove under the registry lock.
deregister_thread(reg, id) ==
    [k \in (DOMAIN reg) \ {id} |-> reg[k]]

\* A snapshot entry that does not read the activity cell.
ThreadStatus_no_activity(status) ==
    [name |-> status.name, short_name |-> status.short_name, activity |-> "None"]

\* From<&RegisteredStatus> for ThreadStatus: reads the activity cell.
ThreadStatus(status) ==
    [name |-> status.name, short_name |-> status.short_name,
     activity |-> activity[status.activity]]

\* registered_threads(): the Vec is given as the map from key to snapshot entry;
\* the key stands for the entry's position in the Vec.
registered_threads ==
    [k \in DOMAIN THREADS_REGISTRY |-> ThreadStatus(THREADS_REGISTRY[k])]

-----------------------------------------------------------------------------
(* The join-check channel *)

NoChannel == [msg |-> 0, sender |-> FALSE, receiver |-> FALSE]
bounded == [msg |-> 0, sender |-> TRUE, receiver |-> TRUE]

\* A guard that does not signal.
try_send_never(ch) == ch

\* A guard that signals twice into a channel with room for both.
try_send_twice(ch) ==
    IF ~ch.receiver THEN ch ELSE [ch EXCEPT !.msg = @ + 2]

\* Sender::try_send(()): fails when the receiver is gone or the channel is full.
try_send(ch) ==
    IF ~ch.receiver \/ ch.msg >= Capacity THEN ch ELSE [ch EXCEPT !.msg = @ + 1]

\* A sender that outlives the guard.
drop_sender_leak(ch) == ch

drop_sender(ch) == [ch EXCEPT !.sender = FALSE]

drop_receiver(ch) == [ch EXCEPT !.receiver = FALSE, !.msg = 0]

\* A receive that never blocks.
recv_ready_always(ch) == ch.receiver

\* A receive that does not notice the disconnection.
recv_ready_message_only(ch) == ch.msg > 0

\* A receive completes (Ok or Disconnected) when a message is buffered or the
\* sender is gone; otherwise it blocks, and recv_timeout ends in Timeout.
recv_ready(ch) == ch.msg > 0 \/ ~ch.sender

\* The receive takes the buffered message, if any.
recv(ch) == IF ch.msg > 0 THEN [ch EXCEPT !.msg = @ - 1] ELSE ch


\* The Mutex of the registry: free, or held by a worker thread t or by the
\* thread that takes a snapshot.
Unlocked == << >>
Observer == <<"observer">>
WorkerThread(t) == <<"worker", t>>

\* The call of registered_threads(): where it is and the Vec it returned.
NoObserver == [pc |-> "idle", result |-> << >>]

-----------------------------------------------------------------------------
(* Initial state: nothing spawned, the registry empty, a fresh mock scope *)

\* A call on a handle: where it is (pc), which method (op), its return value
\* (res), and what held when it was made: the handle still had the join
\* capability (cap), no join() had been called before (first, for join() only),
\* the worker's guard had been dropped (late, for join_timeout() only); and
\* whether the call ran the transform given to map() (ran).
NoCall ==
    [pc |-> "idle", op |-> "none", cap |-> FALSE, first |-> FALSE, late |-> FALSE,
     ran |-> FALSE, res |-> NoResult]

Init ==
    /\ wpc = [t \in AllThreads |-> "unspawned"]
    /\ outcome = [t \in AllThreads |-> NoOutcome]
    /\ THREADS_REGISTRY = << >>
    /\ activity = [t \in AllThreads |-> "None"]
    /\ shutdown = [t \in AllThreads |-> FALSE]
    /\ join_check = [t \in AllThreads |-> NoChannel]
    /\ handle = [t \in AllThreads |-> "none"]
    /\ join = [t \in AllThreads |-> FALSE]
    /\ map_join = [t \in AllThreads |-> FALSE]
    /\ call = [t \in AllThreads |-> NoCall]
    /\ join_called = [t \in AllThreads |-> FALSE]
    /\ joined = [t \in AllThreads |-> FALSE]
    /\ requested = [t \in AllThreads |-> FALSE]
    /\ mock_shutdown = FALSE
    /\ config = [t \in AllThreads |-> DefaultConfig(t)]
    /\ scope_guards = [t \in AllThreads |-> << >>]
    /\ ready_reported = [t \in AllThreads |-> FALSE]
    /\ scope_dropped = [t \in AllThreads |-> FALSE]
    /\ registry_lock = Unlocked
    /\ observer = NoObserver
    /\ activity_lock = [t \in AllThreads |-> Unlocked]
    /\ mock_scopes = << >>

-----------------------------------------------------------------------------
(* Builder::spawn and the spawned thread *)

\* A spawn that registers the thread before it returns the handle.
Spawn_registered(t) ==
    /\ wpc[t] = "unspawned"
    /\ wpc' = [wpc EXCEPT ![t] = "spawned"]
    /\ THREADS_REGISTRY' =
           register_thread(THREADS_REGISTRY, current_thread_id(t), RegisteredStatus_new(t))
    /\ join_check' = [join_check EXCEPT ![t] = bounded]
    /\ shutdown' = [shutdown EXCEPT ![t] = FALSE]
    /\ handle' = [handle EXCEPT ![t] = "Thread"]
    /\ join' = [join EXCEPT ![t] = TRUE]
    /\ UNCHANGED <<outcome, activity, map_join, call,
                   join_called, joined, requested, mock_shutdown, mock_scopes,
                   scopeVars, ghostVars, lockVars>>

\* Builder::spawn, the OS created the thread: the parent gets a Thread handle.
Spawn(t) ==
    /\ wpc[t] = "unspawned"
    /\ wpc' = [wpc EXCEPT ![t] = "spawned"]
    /\ join_check' = [join_check EXCEPT ![t] = bounded]
    /\ shutdown' = [shutdown EXCEPT ![t] = FALSE]
    /\ handle' = [handle EXCEPT ![t] = "Thread"]
    /\ join' = [join EXCEPT ![t] = TRUE]
    /\ UNCHANGED <<outcome, THREADS_REGISTRY, activity, map_join, call,
                   join_called, joined, requested, mock_shutdown, mock_scopes,
                   scopeVars, ghostVars, lockVars>>

\* A spawn that registers the thread before asking the OS for it.
SpawnFails_registered(t) ==
    /\ wpc[t] = "unspawned"
    /\ wpc' = [wpc EXCEPT ![t] = "spawn_failed"]
    /\ THREADS_REGISTRY' =
           register_thread(THREADS_REGISTRY, current_thread_id(t), RegisteredStatus_new(t))
    /\ call' = [call EXCEPT ![t] =
                  [NoCall EXCEPT !.pc = "returned", !.op = "spawn", !.res = Err("Spawn")]]
    /\ UNCHANGED <<outcome, activity, shutdown, join_check, handle,
                   join, map_join, join_called, joined, requested, mock_shutdown, mock_scopes,
                   scopeVars, ghostVars, lockVars>>

\* Builder::spawn, the OS refused: Err(Spawn); the closure (and with it both
\* channel halves and the flag) is dropped without having run.
SpawnFails(t) ==
    /\ wpc[t] = "unspawned"
    /\ wpc' = [wpc EXCEPT ![t] = "spawn_failed"]
    /\ call' = [call EXCEPT ![t] =
                  [NoCall EXCEPT !.pc = "returned", !.op = "spawn", !.res = Err("Spawn")]]
    /\ UNCHANGED <<outcome, THREADS_REGISTRY, activity, shutdown, join_check, handle,
                   join, map_join, join_called, joined, requested, mock_shutdown, mock_scopes,
                   scopeVars, ghostVars, lockVars>>

\* The new thread's entry: current_thread_id, RegisteredStatus::new,
\* ThreadGuard::new (register_thread), ThreadScope::new; then f(scope) runs.
ThreadGuard_new(t) ==
    /\ wpc[t] = "spawned"
    /\ THREADS_REGISTRY' =
           register_thread(THREADS_REGISTRY, current_thread_id(t), RegisteredStatus_new(t))
    /\ activity' = [activity EXCEPT ![t] = "None"]
    /\ wpc' = [wpc EXCEPT ![t] = "running"]
    /\ UNCHANGED <<outcome, shutdown, join_check, handleVars, requested, mock_shutdown, mock_scopes,
                   scopeVars, ghostVars, lockVars>>

\* The worker function is over with outcome o and _guard goes out of scope.
\* Drop for ThreadGuard, first statement: let _ = self.join_check.try_send(()).
\* (Nothing the thread does between the end of f and try_send is visible to
\* another thread, so the two are one step.)
ThreadGuard_drop_signal(t, o) ==
    /\ outcome' = [outcome EXCEPT ![t] = o]
    /\ join_check' = [join_check EXCEPT ![t] = try_send(@)]
    /\ wpc' = [wpc EXCEPT ![t] = "signalled"]

\* f(scope) returns v. The activity guards f created are its locals and were
\* released before it ended (ReleaseGuard below).
WorkerReturn(t, v) ==
    /\ wpc[t] = "running"
    /\ scope_guards[t] = << >>
    /\ ThreadGuard_drop_signal(t, Returned(v))
    /\ UNCHANGED <<THREADS_REGISTRY, activity, shutdown, handleVars,
                   requested, mock_shutdown, mock_scopes,
                   scopeVars, ghostVars, lockVars>>

\* A panic that skips the guard's destructor (the thread ends with the guard leaked).
WorkerPanic_no_unwind(t) ==
    /\ wpc[t] = "running"
    /\ scope_guards[t] = << >>
    /\ outcome' = [outcome EXCEPT ![t] = Panicked]
    /\ wpc' = [wpc EXCEPT ![t] = "terminated"]
    /\ join_check' = [join_check EXCEPT ![t] = drop_sender(@)]
    /\ UNCHANGED <<THREADS_REGISTRY, activity, shutdown, handleVars,
                   requested, mock_shutdown, mock_scopes,
                   scopeVars, ghostVars, lockVars>>

\* f(scope) panics: the stack unwinds through the closure, dropping _guard.
WorkerPanic(t) ==
    /\ wpc[t] = "running"
    /\ scope_guards[t] = << >>
    /\ ThreadGuard_drop_signal(t, Panicked)
    /\ UNCHANGED <<THREADS_REGISTRY, activity, shutdown, handleVars,
                   requested, mock_shutdown, mock_scopes,
                   scopeVars, ghostVars, lockVars>>

\* A drop that goes on only after a send to a live receiver.
ThreadGuard_drop_deregister_if_sent(t) ==
    /\ wpc[t] = "signalled"
    /\ join_check[t].receiver
    /\ THREADS_REGISTRY' = deregister_thread(THREADS_REGISTRY, current_thread_id(t))
    /\ wpc' = [wpc EXCEPT ![t] = "deregistered"]
    /\ UNCHANGED <<outcome, activity, shutdown, join_check, handleVars,
                   requested, mock_shutdown, mock_scopes,
                   scopeVars, ghostVars, lockVars>>

\* Drop for ThreadGuard, second statement: deregister_thread(self.id).
ThreadGuard_drop_deregister(t) ==
    /\ wpc[t] = "signalled"
    /\ THREADS_REGISTRY' = deregister_thread(THREADS_REGISTRY, current_thread_id(t))
    /\ wpc' = [wpc EXCEPT ![t] = "deregistered"]
    /\ UNCHANGED <<outcome, activity, shutdown, join_check, handleVars,
                   requested, mock_shutdown, mock_scopes,
                   scopeVars, ghostVars, lockVars>>

\* The guard's fields are dropped after Drop::drop returned: the Sender goes.
ThreadGuard_drop_fields(t) ==
    /\ wpc[t] = "deregistered"
    /\ join_check' = [join_check EXCEPT ![t] = drop_sender(@)]
    /\ wpc' = [wpc EXCEPT ![t] = "disconnected"]
    /\ UNCHANGED <<outcome, THREADS_REGISTRY, activity, shutdown, handleVars,
                   requested, mock_shutdown, mock_scopes,
                   scopeVars, ghostVars, lockVars>>

\* The closure is over: the OS thread terminates and its result becomes
\* available to JoinHandle::join.
ThreadTerminates(t) ==
    /\ wpc[t] = "disconnected"
    /\ wpc' = [wpc EXCEPT ![t] = "terminated"]
    /\ UNCHANGED <<outcome, THREADS_REGISTRY, activity, shutdown, join_check,
                   handleVars, requested, mock_shutdown, mock_scopes,
                   scopeVars, ghostVars, lockVars>>

\* The ThreadGuard of t exists: from ThreadGuard::new to the end of its drop.
GuardAlive(t) == wpc[t] \in {"running", "signalled"}

\* The guard has been dropped (Drop::drop has returned).
GuardDropped(t) == wpc[t] \in {"deregistered", "disconnected", "terminated"}

-----------------------------------------------------------------------------
(* The parent side: Thread and MapThread *)

HANDLES == {"Thread", "MapThread"}

\* The handle still owns the OS JoinHandle: in Thread.join, or inside the
\* closure that map() stored in MapThread.join.
HasCapability(h) ==
    /\ handle[h] \in HANDLES
    /\ join[h]
    /\ handle[h] = "MapThread" => map_join[h]

\* A take that empties the cells of all the handles.
take_all(opt, h) == [g \in DOMAIN opt |-> FALSE]

\* A read of the Option that leaves it Some.
take_peek(opt, h) == opt

\* Option::take on the handle's cell.
take(opt, h) == [opt EXCEPT ![h] = FALSE]

\* A join that does not wait for the thread.
thread_finished_early(t) == wpc[t] # "unspawned"

\* JoinHandle::join blocks until the OS thread has terminated.
thread_finished(t) == wpc[t] = "terminated"

\* A closure of map() that reports a panicked worker as an empty handle.
JoinOutcome_mapped_error(o, mapped) ==
    IF o.kind = "ok"
    THEN Ok(IF mapped THEN Transform(o.v) ELSE o.v)
    ELSE IF mapped THEN Err("JoinedAlready") ELSE Err("Join")

\* JoinHandle::join().map_err(Join), and .map(f) in the closure of map().
JoinOutcome(o, mapped) ==
    IF o.kind = "ok"
    THEN Ok(IF mapped THEN Transform(o.v) ELSE o.v)
    ELSE Err("Join")

Calling(c, pc, op, cap, first) ==
    [c EXCEPT !.pc = pc, !.op = op, !.cap = cap, !.first = first]

Return(c, res) == [c EXCEPT !.pc = "returned", !.res = res]

\* A join that reports an empty Option as a timeout.
self_join_timeout_kind(h, op, cap, first) ==
    LET c == Calling(call[h], "os_join", op, cap, first)
        some == IF handle[h] = "MapThread" THEN map_join[h] /\ join[h] ELSE join[h]
    IN  /\ map_join' = IF handle[h] = "MapThread" THEN take(map_join, h) ELSE map_join
        /\ join' = IF handle[h] = "MapThread" /\ ~map_join[h] THEN join ELSE take(join, h)
        /\ call' = [call EXCEPT ![h] =
                      IF some THEN c ELSE Return(c, Err("JoinTimeout"))]

\* Thread::join and MapThread::join up to the blocking JoinHandle::join:
\* take the Option; None is JoinedAlready. For a MapThread the closure is taken
\* and called, and takes the JoinHandle that map() moved into it.
self_join(h, op, cap, first) ==
    LET c == Calling(call[h], "os_join", op, cap, first)
        some == IF handle[h] = "MapThread" THEN map_join[h] /\ join[h] ELSE join[h]
    IN  /\ map_join' = IF handle[h] = "MapThread" THEN take(map_join, h) ELSE map_join
        /\ join' = IF handle[h] = "MapThread" /\ ~map_join[h] THEN join ELSE take(join, h)
        /\ call' = [call EXCEPT ![h] =
                      IF some THEN c ELSE Return(c, Err("JoinedAlready"))]

\* A join that first receives from the join-check channel.
Join_recv(h) ==
    /\ handle[h] \in HANDLES
    /\ call[h].pc = "idle"
    /\ join_check' = [join_check EXCEPT ![h] = recv(@)]
    /\ self_join(h, "join", HasCapability(h), ~join_called[h])
    /\ join_called' = [join_called EXCEPT ![h] = TRUE]
    /\ UNCHANGED <<workerVars, shutdown, handle, joined, requested,
                   mock_shutdown, mock_scopes,
                   scopeVars, ghostVars, lockVars>>

\* join(&self)
Join(h) ==
    /\ handle[h] \in HANDLES
    /\ call[h].pc = "idle"
    /\ self_join(h, "join", HasCapability(h), ~join_called[h])
    /\ join_called' = [join_called EXCEPT ![h] = TRUE]
    /\ UNCHANGED <<workerVars, shutdown, join_check, handle, joined, requested,
                   mock_shutdown, mock_scopes,
                   scopeVars, ghostVars, lockVars>>

\* A closure that runs the transform whatever the thread's result.
runs_transform_always(o, mapped) == mapped

\* The closure of map(): Result::map calls f on an Ok result only.
runs_transform(o, mapped) == mapped /\ o.kind = "ok"

\* The blocking JoinHandle::join returns: the call returns the worker's outcome,
\* transformed by the closure of map() when the handle is a MapThread.
JoinReturns(h) ==
    /\ call[h].pc = "os_join"
    /\ thread_finished(h)
    /\ call' = [call EXCEPT ![h] =
                  [Return(@, JoinOutcome(outcome[h], handle[h] = "MapThread"))
                      EXCEPT !.ran = runs_transform(outcome[h], handle[h] = "MapThread")]]
    /\ joined' = [joined EXCEPT ![h] = TRUE]
    /\ UNCHANGED <<workerVars, shutdown, join_check, handle, join, map_join,
                   join_called, requested, mock_shutdown, mock_scopes,
                   scopeVars, ghostVars, lockVars>>

\* join_timeout(&self, timeout): the call starts waiting in recv_timeout.
JoinTimeout(h) ==
    /\ handle[h] \in HANDLES
    /\ call[h].pc = "idle"
    /\ call' = [call EXCEPT ![h] =
                  [Calling(@, "recv_timeout", "join_timeout", HasCapability(h), FALSE)
                      EXCEPT !.late = GuardDropped(h)]]
    /\ UNCHANGED <<workerVars, shutdown, join_check, handle, join, map_join,
                   join_called, joined, requested, mock_shutdown, mock_scopes,
                   scopeVars, ghostVars, lockVars>>

\* A timeout path that gives the JoinHandle up.
JoinTimeout_elapsed_takes(h) ==
    /\ call[h].pc = "recv_timeout"
    /\ ~recv_ready(join_check[h])
    /\ call' = [call EXCEPT ![h] = Return(@, Err("JoinTimeout"))]
    /\ join' = take(join, h)
    /\ UNCHANGED <<workerVars, shutdown, join_check, handle, map_join,
                   join_called, joined, requested, mock_shutdown, mock_scopes,
                   scopeVars, ghostVars, lockVars>>

\* recv_timeout ends in Err(Timeout): the deadline passed with nothing to
\* receive and the sender alive; the call returns JoinTimeout.
JoinTimeout_elapsed(h) ==
    /\ call[h].pc = "recv_timeout"
    /\ ~recv_ready(join_check[h])
    /\ call' = [call EXCEPT ![h] = Return(@, Err("JoinTimeout"))]
    /\ UNCHANGED <<workerVars, shutdown, join_check, handle, join, map_join,
                   join_called, joined, requested, mock_shutdown, mock_scopes,
                   scopeVars, ghostVars, lockVars>>

\* recv_timeout ends in Ok(()) or Err(Disconnected): the call goes on to self.join().
JoinTimeout_received(h) ==
    /\ call[h].pc = "recv_timeout"
    /\ recv_ready(join_check[h])
    /\ join_check' = [join_check EXCEPT ![h] = recv(@)]
    /\ self_join(h, "join_timeout", call[h].cap, FALSE)
    /\ UNCHANGED <<workerVars, shutdown, handle, join_called, joined, requested,
                   mock_shutdown, mock_scopes,
                   scopeVars, ghostVars, lockVars>>

\* select_add on a Select set and a select operation of the set that picks this
\* handle: the receive operation is selected (the message, if any, is claimed).
Select_select(h) ==
    /\ handle[h] \in HANDLES
    /\ call[h].pc = "idle"
    /\ recv_ready(join_check[h])
    /\ join_check' = [join_check EXCEPT ![h] = recv(@)]
    /\ call' = [call EXCEPT ![h] = Calling(@, "selected", "select", FALSE, FALSE)]
    /\ UNCHANGED <<workerVars, shutdown, handle, join, map_join, join_called,
                   joined, requested, mock_shutdown, mock_scopes,
                   scopeVars, ghostVars, lockVars>>

\* A Select set to which select_add added the handles in S, and a select
\* operation of the set that reports the index of h. The handles of a set are
\* borrowed by the one thread that waits on it, so no call is in progress on
\* any of them. With several operations ready the set picks any of them.
Select_wait(S, h) ==
    /\ h \in S
    /\ \A g \in S : handle[g] \in HANDLES /\ call[g].pc = "idle"
    /\ Select_select(h)

\* A readiness wait that takes the message.
Select_ready_consumes(h) ==
    /\ handle[h] \in HANDLES
    /\ call[h].pc = "idle"
    /\ recv_ready(join_check[h])
    /\ join_check' = [join_check EXCEPT ![h] = recv(@)]
    /\ ready_reported' = [ready_reported EXCEPT ![h] = TRUE]
    /\ UNCHANGED <<workerVars, shutdown, handleVars, requested, mock_shutdown, mock_scopes,
                   scopeVars, lockVars>>

\* select_add on a Select set and a readiness wait of the set (Select::ready,
\* ready_timeout) that reports this handle: the receive would not block;
\* nothing is received.
Select_ready(h) ==
    /\ handle[h] \in HANDLES
    /\ call[h].pc = "idle"
    /\ recv_ready(join_check[h])
    /\ ready_reported' = [ready_reported EXCEPT ![h] = TRUE]
    /\ UNCHANGED <<workerVars, shutdown, join_check, handleVars, requested,
                   mock_shutdown, mock_scopes, scopeVars, lockVars>>

\* select_join(&self, operation): completes the receive, then self.join().
\* A selected operation must be completed, and the handle's documentation asks
\* for select_join to do it: it is the only join called in this state.
SelectJoin(h) ==
    /\ call[h].pc = "selected"
    /\ self_join(h, "select_join", HasCapability(h), FALSE)
    /\ UNCHANGED <<workerVars, shutdown, join_check, handle, join_called, joined,
                   requested, mock_shutdown, mock_scopes,
                   scopeVars, ghostVars, lockVars>>

\* The caller has the return value and can make the next call.
CallReturned(h) ==
    /\ call[h].pc = "returned"
    /\ call' = [call EXCEPT ![h] = NoCall]
    /\ UNCHANGED <<workerVars, shutdown, join_check, handle, join, map_join,
                   join_called, joined, requested, mock_shutdown, mock_scopes,
                   scopeVars, ghostVars, lockVars>>

\* A map() that gives the new handle a JoinHandle whatever the old one had.
Map_fresh(h) ==
    /\ handle[h] = "Thread"
    /\ call[h].pc = "idle"
    /\ handle' = [handle EXCEPT ![h] = "MapThread"]
    /\ map_join' = [map_join EXCEPT ![h] = TRUE]
    /\ join' = [join EXCEPT ![h] = TRUE]
    /\ UNCHANGED <<workerVars, shutdown, join_check, call, join_called,
                   joined, requested, mock_shutdown, mock_scopes,
                   scopeVars, ghostVars, lockVars>>

\* map(self, f): the Option<JoinHandle> moves into the closure stored in the
\* new MapThread, with the same join_check receiver and shutdown flag.
Map(h) ==
    /\ handle[h] = "Thread"
    /\ call[h].pc = "idle"
    /\ handle' = [handle EXCEPT ![h] = "MapThread"]
    /\ map_join' = [map_join EXCEPT ![h] = TRUE]
    /\ UNCHANGED <<workerVars, shutdown, join_check, join, call, join_called,
                   joined, requested, mock_shutdown, mock_scopes,
                   scopeVars, ghostVars, lockVars>>

\* The parent drops the handle: the receiver goes, an unjoined JoinHandle detaches.
DropHandle(h) ==
    /\ handle[h] \in HANDLES
    /\ call[h].pc = "idle"
    /\ handle' = [handle EXCEPT ![h] = "dropped"]
    /\ join_check' = [join_check EXCEPT ![h] = drop_receiver(@)]
    /\ join' = [join EXCEPT ![h] = FALSE]
    /\ map_join' = [map_join EXCEPT ![h] = FALSE]
    /\ UNCHANGED <<workerVars, shutdown, call, join_called, joined, requested,
                   mock_shutdown, mock_scopes,
                   scopeVars, ghostVars, lockVars>>

-----------------------------------------------------------------------------
(* The shutdown flag *)

\* A store that flips the flag.
store_toggle(flags, h, value) == [flags EXCEPT ![h] = ~@]

\* A store that is lost.
store_nothing(flags, h, value) == flags

\* One flag shared by all the threads.
store_all(flags, h, value) == [g \in DOMAIN flags |-> value]

\* AtomicBool::store(value, Relaxed) on the flag of h.
store(flags, h, value) == [flags EXCEPT ![h] = value]

\* ThreadScope::should_shutdown(): AtomicBool::load(Relaxed).
should_shutdown(t) == shutdown[t]

\* A request that stops the thread by force.
RequestShutdown_kill(h) ==
    /\ handle[h] \in HANDLES
    /\ call[h].pc \in {"idle", "selected"}
    /\ shutdown' = store(shutdown, h, TRUE)
    /\ requested' = [requested EXCEPT ![h] = TRUE]
    /\ wpc' = [wpc EXCEPT ![h] = IF @ = "running" THEN "terminated" ELSE @]
    /\ UNCHANGED <<outcome, THREADS_REGISTRY, activity, join_check, handleVars,
                   mock_shutdown, mock_scopes, scopeVars, ghostVars, lockVars>>

\* A MapThread whose requests do not reach the flag of the worker.
RequestShutdown_unmapped(h) ==
    /\ handle[h] \in HANDLES
    /\ call[h].pc \in {"idle", "selected"}
    /\ shutdown' = IF handle[h] = "Thread" THEN store(shutdown, h, TRUE) ELSE shutdown
    /\ requested' = [requested EXCEPT ![h] = TRUE]
    /\ UNCHANGED <<workerVars, join_check, handleVars, mock_shutdown, mock_scopes,
                   scopeVars, ghostVars, lockVars>>

\* Thread::request_shutdown and MapThread::request_shutdown.
RequestShutdown(h) ==
    /\ handle[h] \in HANDLES
    /\ call[h].pc \in {"idle", "selected"}
    /\ shutdown' = store(shutdown, h, TRUE)
    /\ requested' = [requested EXCEPT ![h] = TRUE]
    /\ UNCHANGED <<workerVars, join_check, handleVars, mock_shutdown, mock_scopes,
                   scopeVars, ghostVars, lockVars>>

\* MockThreadScope::set_shutdown(value)
MockThreadScope_set_shutdown(value) ==
    /\ mock_shutdown' = value
    /\ UNCHANGED <<workerVars, shutdown, join_check, handleVars, requested,
                   mock_scopes, scopeVars, ghostVars, lockVars>>

\* should_shutdown() of a scope obtained from MockThreadScope::scope().
mock_should_shutdown == mock_shutdown

\* The two cells a MockThreadScope owns, each behind an Arc: a ThreadScope
\* holds references to cells, and the mock's cells are in no registry entry.
MockCell == <<"mock">>
\* A cell of its own, created holding b.
OwnCell(b) == <<"own", b>>

\* AtomicBool::load through a reference held by a scope of the mock.
AtomicBool_load(ref) == IF ref = MockCell THEN mock_shutdown ELSE ref[2]

\* ThreadScope::should_shutdown on a scope obtained from the mock.
ThreadScope_should_shutdown(scope) == AtomicBool_load(scope.shutdown)

\* A scope() that hands out a flag of its own holding the current value.
MockThreadScope_scope_copy ==
    /\ Len(mock_scopes) < MaxScopes
    /\ mock_scopes' = Append(mock_scopes,
                             [activity |-> MockCell, shutdown |-> OwnCell(mock_shutdown)])
    /\ UNCHANGED <<workerVars, shutdown, join_check, handleVars, requested,
                   mock_shutdown, scopeVars, ghostVars, lockVars>>

\* MockThreadScope::scope(): ThreadScope::new(Arc::clone(&self.activity),
\* Arc::clone(&self.shutdown)); nothing is registered.
MockThreadScope_scope ==
    /\ Len(mock_scopes) < MaxScopes
    /\ mock_scopes' = Append(mock_scopes,
                             [activity |-> MockCell, shutdown |-> MockCell])
    /\ UNCHANGED <<workerVars, shutdown, join_check, handleVars, requested,
                   mock_shutdown, scopeVars, ghostVars, lockVars>>

-----------------------------------------------------------------------------
(* The activity of a thread: ThreadScope and ThreadScopeActivityGuard *)

\* Vec::remove: the sequence without its i-th element.
Remove(seq, i) == [j \in 1..(Len(seq) - 1) |-> IF j < i THEN seq[j] ELSE seq[j + 1]]

\* A guard that remembers the activity it has just set.
scoped_current_after(cell, text) == text

\* scoped_activity: let current = guard.clone(), taken before the cell is set.
scoped_current(cell, text) == cell

\* ThreadScope::activity(text): *guard = Some(activity), under the cell's lock.
ThreadScope_activity(t, text) ==
    /\ wpc[t] = "running"
    /\ ~scope_dropped[t]
    /\ activity' = [activity EXCEPT ![t] = text]
    /\ UNCHANGED <<wpc, outcome, THREADS_REGISTRY, shutdown, join_check, handleVars,
                   requested, mock_shutdown, mock_scopes, scopeVars, ghostVars, lockVars>>

\* ThreadScope::idle(): *guard = None.
ThreadScope_idle(t) ==
    /\ wpc[t] = "running"
    /\ ~scope_dropped[t]
    /\ activity' = [activity EXCEPT ![t] = "None"]
    /\ UNCHANGED <<wpc, outcome, THREADS_REGISTRY, shutdown, join_check, handleVars,
                   requested, mock_shutdown, mock_scopes, scopeVars, ghostVars, lockVars>>

\* ThreadScope::scoped_activity(text): remember the cell's value, set the cell,
\* return the guard. Beside the guard's field (current) the model keeps what
\* the call was given (text) and what the cell held when it was made (before).
ThreadScope_scoped_activity(t, text) ==
    /\ wpc[t] = "running"
    /\ ~scope_dropped[t]
    /\ Len(scope_guards[t]) < MaxGuards
    /\ scope_guards' = [scope_guards EXCEPT ![t] =
           Append(@, [current |-> scoped_current(activity[t], text),
                      text |-> text, before |-> activity[t]])]
    /\ activity' = [activity EXCEPT ![t] = text]
    /\ UNCHANGED <<wpc, outcome, THREADS_REGISTRY, shutdown, join_check, handleVars,
                   requested, mock_shutdown, mock_scopes, config, scope_dropped, ghostVars, lockVars>>

\* A release that restores only when the cell still holds the guard's text.
ThreadScopeActivityGuard_drop_if_unchanged(t, i) ==
    /\ wpc[t] = "running"
    /\ i \in DOMAIN scope_guards[t]
    /\ activity' = [activity EXCEPT ![t] =
                       IF @ = scope_guards[t][i].text THEN scope_guards[t][i].current ELSE @]
    /\ scope_guards' = [scope_guards EXCEPT ![t] = Remove(@, i)]
    /\ UNCHANGED <<wpc, outcome, THREADS_REGISTRY, shutdown, join_check, handleVars,
                   requested, mock_shutdown, mock_scopes, config, scope_dropped, ghostVars, lockVars>>

\* A release that unwinds: a guard released before the guard created after it
\* hands that guard its captured value and leaves the cell alone.
ThreadScopeActivityGuard_drop_unwinding(t, i) ==
    /\ wpc[t] = "running"
    /\ i \in DOMAIN scope_guards[t]
    /\ activity' = [activity EXCEPT ![t] =
                       IF i = Len(scope_guards[t]) THEN scope_guards[t][i].current ELSE @]
    /\ LET g == scope_guards[t]
           handed == IF i = Len(g) THEN g ELSE [g EXCEPT ![i + 1].current = g[i].current]
       IN  scope_guards' = [scope_guards EXCEPT ![t] = Remove(handed, i)]
    /\ UNCHANGED <<wpc, outcome, THREADS_REGISTRY, shutdown, join_check, handleVars,
                   requested, mock_shutdown, mock_scopes, config, scope_dropped, ghostVars, lockVars>>

\* Drop for ThreadScopeActivityGuard, of the i-th guard alive:
\* *guard = self.current.take().
ThreadScopeActivityGuard_drop(t, i) ==
    /\ wpc[t] = "running"
    /\ i \in DOMAIN scope_guards[t]
    /\ activity' = [activity EXCEPT ![t] = scope_guards[t][i].current]
    /\ scope_guards' = [scope_guards EXCEPT ![t] = Remove(@, i)]
    /\ UNCHANGED <<wpc, outcome, THREADS_REGISTRY, shutdown, join_check, handleVars,
                   requested, mock_shutdown, mock_scopes, config, scope_dropped, ghostVars, lockVars>>

\* A scope drop that takes the thread out of the registry.
ThreadScope_drop_deregisters(t) ==
    /\ wpc[t] = "running"
    /\ ~scope_dropped[t]
    /\ scope_dropped' = [scope_dropped EXCEPT ![t] = TRUE]
    /\ THREADS_REGISTRY' = deregister_thread(THREADS_REGISTRY, current_thread_id(t))
    /\ UNCHANGED <<wpc, outcome, activity, shutdown, join_check, handleVars,
                   requested, mock_shutdown, mock_scopes, config, scope_guards, ghostVars, lockVars>>

\* The worker function drops its ThreadScope before it ends: the scope's Arcs
\* of the activity cell and of the flag go, nothing else (ThreadScope has no
\* Drop; the guard of the thread is a separate local of the thread's closure).
\* Activity guards hold their own Arc of the cell and outlive the scope.
ThreadScope_drop(t) ==
    /\ wpc[t] = "running"
    /\ ~scope_dropped[t]
    /\ scope_dropped' = [scope_dropped EXCEPT ![t] = TRUE]
    /\ UNCHANGED <<workerVars, shutdown, join_check, handleVars,
                   requested, mock_shutdown, mock_scopes, config, scope_guards, ghostVars, lockVars>>

\* Any use of its scope by the worker function of t.
ScopeOps(t) ==
    \/ \E text \in Texts : ThreadScope_activity(t, text)
    \/ ThreadScope_idle(t)
    \/ \E text \in Texts : ThreadScope_scoped_activity(t, text)
    \/ \E i \in 1..MaxGuards : ThreadScopeActivityGuard_drop(t, i)

\* A worker function that nests its guards: a guard is released before the
\* guards created earlier, and activity()/idle() are called with no guard alive.
NestedScopeOps(t) ==
    \/ scope_guards[t] = << >> /\ \E text \in Texts : ThreadScope_activity(t, text)
    \/ scope_guards[t] = << >> /\ ThreadScope_idle(t)
    \/ \E text \in Texts : ThreadScope_scoped_activity(t, text)
    \/ ThreadScopeActivityGuard_drop(t, Len(scope_guards[t]))

-----------------------------------------------------------------------------
(* The registry under its Mutex, one lock operation at a time *)

\* A registry whose lock excludes nobody.
mutex_lock_none(lock, who) == lock

\* Mutex::lock returns: who holds the lock now.
mutex_lock(lock, who) == who

\* register_thread, first half: THREADS_REGISTRY.lock() returns.
register_thread_lock(t) ==
    /\ wpc[t] = "spawned"
    /\ registry_lock = Unlocked
    /\ registry_lock' = mutex_lock(registry_lock, WorkerThread(t))
    /\ wpc' = [wpc EXCEPT ![t] = "registering"]
    /\ UNCHANGED <<outcome, THREADS_REGISTRY, activity, shutdown, join_check,
                   handleVars, requested, mock_shutdown, mock_scopes, scopeVars, ghostVars, observer, activity_lock>>

\* An insert that keeps the lock while the worker function runs.
register_thread_insert_holding(t) ==
    /\ wpc[t] = "registering"
    /\ THREADS_REGISTRY' =
           register_thread(THREADS_REGISTRY, current_thread_id(t), RegisteredStatus_new(t))
    /\ activity' = [activity EXCEPT ![t] = "None"]
    /\ wpc' = [wpc EXCEPT ![t] = "running"]
    /\ UNCHANGED <<outcome, shutdown, join_check, handleVars, requested,
                   mock_shutdown, mock_scopes, scopeVars, ghostVars, lockVars>>

\* register_thread, second half: insert, and the MutexGuard temporary is
\* dropped at the end of the statement; ThreadGuard::new returns and f runs.
register_thread_insert(t) ==
    /\ wpc[t] = "registering"
    /\ THREADS_REGISTRY' =
           register_thread(THREADS_REGISTRY, current_thread_id(t), RegisteredStatus_new(t))
    /\ activity' = [activity EXCEPT ![t] = "None"]
    /\ registry_lock' = Unlocked
    /\ wpc' = [wpc EXCEPT ![t] = "running"]
    /\ UNCHANGED <<outcome, shutdown, join_check, handleVars, requested,
                   mock_shutdown, mock_scopes, scopeVars, ghostVars, observer, activity_lock>>

\* deregister_thread, first half: THREADS_REGISTRY.lock() returns.
deregister_thread_lock(t) ==
    /\ wpc[t] = "signalled"
    /\ registry_lock = Unlocked
    /\ registry_lock' = mutex_lock(registry_lock, WorkerThread(t))
    /\ wpc' = [wpc EXCEPT ![t] = "deregistering"]
    /\ UNCHANGED <<outcome, THREADS_REGISTRY, activity, shutdown, join_check,
                   handleVars, requested, mock_shutdown, mock_scopes, scopeVars, ghostVars, observer, activity_lock>>

\* deregister_thread, second half: remove, and the lock is released.
deregister_thread_remove(t) ==
    /\ wpc[t] = "deregistering"
    /\ THREADS_REGISTRY' = deregister_thread(THREADS_REGISTRY, current_thread_id(t))
    /\ registry_lock' = Unlocked
    /\ wpc' = [wpc EXCEPT ![t] = "deregistered"]
    /\ UNCHANGED <<outcome, activity, shutdown, join_check, handleVars, requested,
                   mock_shutdown, mock_scopes, scopeVars, ghostVars, observer, activity_lock>>

\* registered_threads(), first half: THREADS_REGISTRY.lock() returns.
registered_threads_lock ==
    /\ observer.pc = "idle"
    /\ registry_lock = Unlocked
    /\ registry_lock' = mutex_lock(registry_lock, Observer)
    /\ observer' = [observer EXCEPT !.pc = "copying"]
    /\ UNCHANGED <<workerVars, shutdown, join_check, handleVars, requested,
                   mock_shutdown, mock_scopes, scopeVars, ghostVars, activity_lock>>

\* registered_threads(), second half: iter().map(into).collect() builds the
\* Vec, the lock is released and the Vec is returned.
registered_threads_collect ==
    /\ observer.pc = "copying"
    /\ observer' = [pc |-> "returned", result |-> registered_threads]
    /\ registry_lock' = Unlocked
    /\ UNCHANGED <<workerVars, shutdown, join_check, handleVars, requested,
                   mock_shutdown, mock_scopes, scopeVars, ghostVars, activity_lock>>

\* The caller drops the Vec; it may take another snapshot.
registered_threads_done ==
    /\ observer.pc = "returned"
    /\ observer' = NoObserver
    /\ UNCHANGED <<workerVars, shutdown, join_check, handleVars, requested,
                   mock_shutdown, mock_scopes, scopeVars, ghostVars, registry_lock,
                   activity_lock>>

-----------------------------------------------------------------------------
(* The activity cells under their Mutexes, one lock operation at a time *)

\* self.activity.lock() returns in activity(), idle(), scoped_activity() or
\* the drop of a guard, called by the worker function of t: it holds its cell.
ThreadScope_activity_lock(t) ==
    /\ wpc[t] = "running"
    /\ activity_lock[t] = Unlocked
    /\ activity_lock' = [activity_lock EXCEPT ![t] = mutex_lock(@, WorkerThread(t))]
    /\ UNCHANGED <<workerVars, shutdown, join_check, handleVars, requested,
                   mock_shutdown, mock_scopes, scopeVars, ghostVars, registry_lock, observer>>

\* A write to the cell that waits for the registry to be free.
cell_write_registry(t, value) ==
    /\ activity_lock[t] = WorkerThread(t)
    /\ registry_lock = Unlocked
    /\ activity' = [activity EXCEPT ![t] = value]
    /\ activity_lock' = [activity_lock EXCEPT ![t] = Unlocked]

\* *guard = value by the holder of the cell's lock; the MutexGuard is dropped
\* at the end of the function.
cell_write(t, value) ==
    /\ activity_lock[t] = WorkerThread(t)
    /\ activity' = [activity EXCEPT ![t] = value]
    /\ activity_lock' = [activity_lock EXCEPT ![t] = Unlocked]

\* ThreadScope::activity(text), after the lock.
ThreadScope_activity_unlock(t, text) ==
    /\ ~scope_dropped[t]
    /\ cell_write(t, text)
    /\ UNCHANGED <<wpc, outcome, THREADS_REGISTRY, shutdown, join_check, handleVars,
                   requested, mock_shutdown, mock_scopes, scopeVars, ghostVars, registry_lock, observer>>

\* ThreadScope::idle(), after the lock.
ThreadScope_idle_unlock(t) ==
    /\ ~scope_dropped[t]
    /\ cell_write(t, "None")
    /\ UNCHANGED <<wpc, outcome, THREADS_REGISTRY, shutdown, join_check, handleVars,
                   requested, mock_shutdown, mock_scopes, scopeVars, ghostVars, registry_lock, observer>>

\* ThreadScope::scoped_activity(text), after the lock: clone, set, drop(guard).
ThreadScope_scoped_activity_unlock(t, text) ==
    /\ ~scope_dropped[t]
    /\ Len(scope_guards[t]) < MaxGuards
    /\ scope_guards' = [scope_guards EXCEPT ![t] =
           Append(@, [current |-> scoped_current(activity[t], text),
                      text |-> text, before |-> activity[t]])]
    /\ cell_write(t, text)
    /\ UNCHANGED <<wpc, outcome, THREADS_REGISTRY, shutdown, join_check, handleVars,
                   requested, mock_shutdown, mock_scopes, config, scope_dropped, ghostVars,
                   registry_lock, observer>>

\* Drop for ThreadScopeActivityGuard of the i-th guard alive, after the lock.
ThreadScopeActivityGuard_drop_unlock(t, i) ==
    /\ i \in DOMAIN scope_guards[t]
    /\ cell_write(t, scope_guards[t][i].current)
    /\ scope_guards' = [scope_guards EXCEPT ![t] = Remove(@, i)]
    /\ UNCHANGED <<wpc, outcome, THREADS_REGISTRY, shutdown, join_check, handleVars,
                   requested, mock_shutdown, mock_scopes, config, scope_dropped, ghostVars,
                   registry_lock, observer>>

\* What the worker function of t does once it holds its cell.
CellWrites(t) ==
    \/ \E text \in Texts : ThreadScope_activity_unlock(t, text)
    \/ ThreadScope_idle_unlock(t)
    \/ scope_guards[t] = << >> /\ \E text \in Texts : ThreadScope_scoped_activity_unlock(t, text)
    \/ ThreadScopeActivityGuard_drop_unlock(t, 1)

\* registered_threads(), status.into() for the entry under key k:
\* status.activity.lock() returns, with the registry lock held.
registered_threads_lock_cell(k) ==
    /\ observer.pc = "copying"
    /\ k \in DOMAIN THREADS_REGISTRY \ DOMAIN observer.result
    /\ \A c \in AllThreads : activity_lock[c] # Observer
    /\ activity_lock[THREADS_REGISTRY[k].activity] = Unlocked
    /\ activity_lock' = [activity_lock EXCEPT ![THREADS_REGISTRY[k].activity] =
                            mutex_lock(@, Observer)]
    /\ UNCHANGED <<workerVars, shutdown, join_check, handleVars, requested,
                   mock_shutdown, mock_scopes, scopeVars, ghostVars, registry_lock, observer>>

\* status.into() for the entry under key k, after the lock: clone the cell,
\* release it, build the ThreadStatus.
registered_threads_clone(k) ==
    /\ observer.pc = "copying"
    /\ k \in DOMAIN THREADS_REGISTRY \ DOMAIN observer.result
    /\ activity_lock[THREADS_REGISTRY[k].activity] = Observer
    /\ LET copied == observer.result
       IN  observer' = [observer EXCEPT !.result =
               [j \in DOMAIN copied \cup {k} |->
                   IF j = k THEN ThreadStatus(THREADS_REGISTRY[k]) ELSE copied[j]]]
    /\ activity_lock' = [activity_lock EXCEPT ![THREADS_REGISTRY[k].activity] = Unlocked]
    /\ UNCHANGED <<workerVars, shutdown, join_check, handleVars, requested,
                   mock_shutdown, mock_scopes, scopeVars, ghostVars, registry_lock>>

\* registered_threads(): the iterator is exhausted, collect() has the Vec, the
\* registry lock is released and the Vec is returned to a caller that drops it.
registered_threads_return ==
    /\ observer.pc = "copying"
    /\ DOMAIN observer.result = DOMAIN THREADS_REGISTRY
    /\ observer' = NoObserver
    /\ registry_lock' = Unlocked
    /\ UNCHANGED <<workerVars, shutdown, join_check, handleVars, requested,
                   mock_shutdown, mock_scopes, scopeVars, ghostVars, activity_lock>>

\* A worker function that polls the flag and returns v once it reads true:
\* one iteration of  loop { sleep(..); if scope.should_shutdown() { break; } }.
WorkerPoll(t, v) ==
    /\ wpc[t] = "running"
    /\ ~scope_dropped[t]
    /\ scope_guards[t] = << >>
    /\ IF should_shutdown(t)
       THEN /\ ThreadGuard_drop_signal(t, Returned(v))
            /\ UNCHANGED <<THREADS_REGISTRY, activity, lockVars>>
       ELSE UNCHANGED <<workerVars, join_check, lockVars>>
    /\ UNCHANGED <<shutdown, handleVars, requested, mock_shutdown, mock_scopes,
                   scopeVars, ghostVars, lockVars>>

-----------------------------------------------------------------------------
(* The system *)

Worker(t) ==
    \/ ThreadGuard_new(t)
    \/ \E v \in Values : WorkerReturn(t, v)
    \/ WorkerPanic(t)
    \/ ThreadGuard_drop_deregister(t)
    \/ ThreadGuard_drop_fields(t)
    \/ ThreadTerminates(t)

Parent(h) ==
    \/ Spawn(h)
    \/ SpawnFails(h)
    \/ Join(h)
    \/ JoinReturns(h)
    \/ JoinTimeout(h)
    \/ JoinTimeout_elapsed(h)
    \/ JoinTimeout_received(h)
    \/ Select_select(h)
    \/ SelectJoin(h)
    \/ CallReturned(h)
    \/ Map(h)
    \/ DropHandle(h)

\* Spawning, the spawned threads, and joining them.
NextJoin == \E t \in Threads : Worker(t) \/ Parent(t)

\* The library: the above and the shutdown requests.
Next ==
    \/ NextJoin
    \/ \E h \in Threads : RequestShutdown(h)

Spec == Init /\ [][Next]_vars

\* The library used together with the test-support mock scope. The timed and
\* the select joins are left out: they read and write no flag, and join() and
\* map() already take the handles through the states that matter to a flag.
NextWithMock ==
    \/ \E t \in Threads :
          \/ Worker(t)
          \/ Spawn(t)
          \/ SpawnFails(t)
          \/ Join(t)
          \/ JoinReturns(t)
          \/ CallReturned(t)
          \/ Map(t)
          \/ DropHandle(t)
          \/ RequestShutdown(t)
    \/ \E value \in BOOLEAN : MockThreadScope_set_shutdown(value)

SpecWithMock == Init /\ [][NextWithMock]_vars

\* A test that drives a MockThreadScope and the scopes obtained from it next
\* to spawned threads.
NextMockScope ==
    \/ \E t \in Threads :
          \/ Spawn(t)
          \/ Worker(t)
          \/ RequestShutdown(t)
    \/ MockThreadScope_scope
    \/ \E value \in BOOLEAN : MockThreadScope_set_shutdown(value)

MockScopeSpec == Init /\ [][NextMockScope]_vars

\* The steps of a spawned thread that do not depend on the worker function:
\* its entry and, once f is over, the guard's drop and the thread's end.
ThreadProgress(t) ==
    \/ ThreadGuard_new(t)
    \/ ThreadGuard_drop_deregister(t)
    \/ ThreadGuard_drop_fields(t)
    \/ ThreadTerminates(t)

\* Fair scheduling: a spawned OS thread keeps running, and a parent blocked in
\* JoinHandle::join is woken once the thread has terminated. Nothing makes a
\* worker function return, or the parent call anything.
Fairness ==
    \A t \in Threads : WF_vars(ThreadProgress(t)) /\ WF_vars(JoinReturns(t))

\* No step of a worker or of a join reads the shutdown flag, so the requests
\* are left out of the specification the liveness of join is checked under.
FairSpec == Init /\ [][NextJoin]_vars /\ Fairness

\* Any names given to the Builders of the threads the program spawns.
InitConfig ==
    \E c \in [Threads -> UNION {Configs(t) : t \in Threads}] :
        /\ \A t \in Threads : c[t] \in Configs(t)
        /\ Init!1 /\ Init!2 /\ Init!3 /\ Init!4 /\ Init!5 /\ Init!6 /\ Init!7
        /\ Init!8 /\ Init!9 /\ Init!10 /\ Init!11 /\ Init!12 /\ Init!13 /\ Init!14
        /\ config = [t \in AllThreads |-> IF t \in Threads THEN c[t] ELSE DefaultConfig(t)]
        /\ Init!16 /\ Init!17 /\ Init!18 /\ Init!19 /\ Init!20 /\ Init!21 /\ Init!22

\* Threads with any names and worker functions that nest their guards and may
\* drop their scope early.
NextNested ==
    \E t \in Threads :
        Spawn(t) \/ Worker(t) \/ NestedScopeOps(t) \/ ThreadScope_drop(t)

NestedSpec == InitConfig /\ [][NextNested]_vars

\* The program of tests::select_multiple_threads: several threads, and a parent
\* that waits on Select sets of their handles and select-joins the reported one.
NextSelect ==
    \E t \in SelectThreads :
        \/ Spawn(t)
        \/ Worker(t)
        \/ \E S \in SUBSET SelectThreads : Select_wait(S, t)
        \/ SelectJoin(t)
        \/ JoinReturns(t)
        \/ CallReturned(t)

SelectSpec == Init /\ [][NextSelect]_vars

\* Spawning and joining, with readiness waits on the handles.
NextReady == NextJoin \/ \E h \in Threads : Select_ready(h)

ReadySpec == Init /\ [][NextReady]_vars

\* Threads whose registry operations take the lock in a step of their own, a
\* thread that takes snapshots, and a parent that joins in every way.
NextLock ==
    \/ \E t \in Threads :
          \/ Spawn(t)
          \/ register_thread_lock(t)
          \/ register_thread_insert(t)
          \/ \E v \in Values : WorkerReturn(t, v)
          \/ WorkerPanic(t)
          \/ deregister_thread_lock(t)
          \/ deregister_thread_remove(t)
          \/ ThreadGuard_drop_fields(t)
          \/ ThreadTerminates(t)
          \/ Join(t)
          \/ JoinReturns(t)
          \/ JoinTimeout(t)
          \/ JoinTimeout_elapsed(t)
          \/ JoinTimeout_received(t)
          \/ Select_select(t)
          \/ SelectJoin(t)
          \/ CallReturned(t)
    \/ registered_threads_lock
    \/ registered_threads_collect
    \/ registered_threads_done

LockSpec == Init /\ [][NextLock]_vars

\* Threads of which the first has a worker function that uses its scope in
\* every way: activity() and idle() with guards alive, guards released in any
\* order. The functions of the other threads leave their scopes alone.
NextScope ==
    \/ \E t \in Threads : Spawn(t) \/ Worker(t)
    \/ ScopeOps(1)

ScopeSpec == Init /\ [][NextScope]_vars

\* Two threads side by side for the comparison of the two kinds of handle: the
\* handle of Plain stays a Thread, the handle of Mapped may be given to map().
Plain == 1
Mapped == 2

\* What Result::map(f) makes of a result of the plain handle.
mapped_result(res, mapped) ==
    IF res.kind = "Ok" /\ mapped THEN Ok(Transform(res.v)) ELSE res

\* The state of thread b and its handle is the state of thread a and its
\* handle, except that b's handle may be a MapThread: then its JoinHandle is
\* inside the closure, and an Ok result is the transform of a's.
TwinSync(a, b) ==
    /\ wpc[a] = wpc[b]
    /\ outcome[a] = outcome[b]
    /\ activity[a] = activity[b]
    /\ (current_thread_id(a) \in DOMAIN THREADS_REGISTRY)
          <=> (current_thread_id(b) \in DOMAIN THREADS_REGISTRY)
    /\ shutdown[a] = shutdown[b]
    /\ requested[a] = requested[b]
    /\ join_check[a] = join_check[b]
    /\ (handle[a] \in HANDLES) <=> (handle[b] \in HANDLES)
    /\ (handle[a] = "none") <=> (handle[b] = "none")
    /\ join[a] = (IF handle[b] = "MapThread" THEN join[b] /\ map_join[b] ELSE join[b])
    /\ join_called[a] = join_called[b]
    /\ joined[a] = joined[b]
    /\ call[b].pc = call[a].pc
    /\ call[b].op = call[a].op
    /\ call[b].cap = call[a].cap
    /\ call[b].first = call[a].first
    /\ call[b].late = call[a].late
    /\ call[b].res = mapped_result(call[a].res, handle[b] = "MapThread")

\* The calls the comparison is about, and the steps of the spawned thread.
TwinStep(t) ==
    \/ Spawn(t)
    \/ Worker(t)
    \/ Join(t)
    \/ JoinReturns(t)
    \/ JoinTimeout(t)
    \/ JoinTimeout_elapsed(t)
    \/ JoinTimeout_received(t)
    \/ Select_select(t)
    \/ SelectJoin(t)
    \/ CallReturned(t)
    \/ RequestShutdown(t)

\* A program that does to both handles the same, one after the other: when
\* the two are level either takes a step (and Mapped may be given to map()),
\* and then the other one has to take the step that makes them level again.
NextTwin ==
    \/ /\ TwinSync(Plain, Mapped)
       /\ TwinStep(Plain) \/ TwinStep(Mapped) \/ Map(Mapped)
    \/ /\ ~TwinSync(Plain, Mapped)
       /\ TwinStep(Plain) \/ TwinStep(Mapped)
       /\ TwinSync(Plain, Mapped)'

TwinSpec == Init /\ [][NextTwin]_vars

\* Two threads side by side for the comparison of the two versions of the
\* Thread handle: the handle of PlainOption is the Thread of handles.rs
\* (join: Option<JoinHandle<T>>, join and join_timeout take &mut self), the
\* handle of CellOption the Thread of handles/mod.rs (join: RefCell<Option<..>>,
\* the calls take &self).
PlainOption == 1
CellOption == 2

\* handles.rs Thread::join(&mut self): take the Option, None is JoinedAlready,
\* else the blocking JoinHandle::join.
handles_Thread_join(h) ==
    /\ handle[h] = "Thread"
    /\ call[h].pc = "idle"
    /\ LET c == Calling(call[h], "os_join", "join", HasCapability(h), ~join_called[h])
       IN  call' = [call EXCEPT ![h] =
                       IF join[h] THEN c ELSE Return(c, Err("JoinedAlready"))]
    /\ join' = take(join, h)
    /\ join_called' = [join_called EXCEPT ![h] = TRUE]
    /\ UNCHANGED <<workerVars, shutdown, join_check, handle, map_join, joined,
                   requested, mock_shutdown, mock_scopes, scopeVars, ghostVars,
                   lockVars>>

\* handles.rs Thread::join_timeout(&mut self, timeout): an empty Option is
\* JoinedAlready at once; else the call starts waiting in recv_timeout.
handles_Thread_join_timeout(h) ==
    /\ handle[h] = "Thread"
    /\ call[h].pc = "idle"
    /\ LET c == [Calling(call[h], "recv_timeout", "join_timeout", HasCapability(h), FALSE)
                    EXCEPT !.late = GuardDropped(h)]
       IN  call' = [call EXCEPT ![h] =
                       IF join[h] THEN c ELSE Return(c, Err("JoinedAlready"))]
    /\ UNCHANGED <<workerVars, shutdown, join_check, handle, join, map_join,
                   join_called, joined, requested, mock_shutdown, mock_scopes,
                   scopeVars, ghostVars, lockVars>>

\* handles.rs: recv_timeout ends in Err(Timeout), the call returns JoinTimeout.
handles_Thread_join_timeout_elapsed(h) ==
    /\ call[h].pc = "recv_timeout"
    /\ ~recv_ready(join_check[h])
    /\ call' = [call EXCEPT ![h] = Return(@, Err("JoinTimeout"))]
    /\ UNCHANGED <<workerVars, shutdown, join_check, handle, join, map_join,
                   join_called, joined, requested, mock_shutdown, mock_scopes,
                   scopeVars, ghostVars, lockVars>>

\* handles.rs: recv_timeout ends in Ok(()) or Err(Disconnected): the Option,
\* which was Some when the exclusive call began, is taken and joined.
handles_Thread_join_timeout_received(h) ==
    /\ call[h].pc = "recv_timeout"
    /\ recv_ready(join_check[h])
    /\ join[h]
    /\ join_check' = [join_check EXCEPT ![h] = recv(@)]
    /\ join' = take(join, h)
    /\ call' = [call EXCEPT ![h] = Calling(@, "os_join", "join_timeout", @.cap, FALSE)]
    /\ UNCHANGED <<workerVars, shutdown, handle, map_join, join_called, joined,
                   requested, mock_shutdown, mock_scopes, scopeVars, ghostVars,
                   lockVars>>

\* handles.rs Thread::request_shutdown(&self): self.shutdown.store(true).
handles_Thread_request_shutdown(h) ==
    /\ handle[h] = "Thread"
    /\ call[h].pc = "idle"
    /\ shutdown' = store(shutdown, h, TRUE)
    /\ requested' = [requested EXCEPT ![h] = TRUE]
    /\ UNCHANGED <<workerVars, join_check, handleVars, mock_shutdown, mock_scopes,
                   scopeVars, ghostVars, lockVars>>

\* The calls on the handle of handles.rs, and the steps of its thread.
PlainOptionStep(t) ==
    \/ Spawn(t)
    \/ Worker(t)
    \/ handles_Thread_join(t)
    \/ JoinReturns(t)
    \/ handles_Thread_join_timeout(t)
    \/ handles_Thread_join_timeout_elapsed(t)
    \/ handles_Thread_join_timeout_received(t)
    \/ CallReturned(t)
    \/ handles_Thread_request_shutdown(t)

\* The same calls on the handle of handles/mod.rs.
CellOptionStep(t) ==
    \/ Spawn(t)
    \/ Worker(t)
    \/ Join(t)
    \/ JoinReturns(t)
    \/ JoinTimeout(t)
    \/ JoinTimeout_elapsed(t)
    \/ JoinTimeout_received(t)
    \/ CallReturned(t)
    \/ RequestShutdown(t)

\* The two threads and all of their handles but the call in progress are the
\* same. The join-check channels are compared while the JoinHandle is there:
\* with it gone only the handle of handles/mod.rs still receives.
VersionSyncBut(a, b) ==
    /\ wpc[a] = wpc[b]
    /\ outcome[a] = outcome[b]
    /\ activity[a] = activity[b]
    /\ (current_thread_id(a) \in DOMAIN THREADS_REGISTRY)
          <=> (current_thread_id(b) \in DOMAIN THREADS_REGISTRY)
    /\ shutdown[a] = shutdown[b]
    /\ requested[a] = requested[b]
    /\ handle[a] = handle[b]
    /\ join[a] = join[b]
    /\ join[a] => join_check[a] = join_check[b]
    /\ join_check[a].sender = join_check[b].sender
    /\ join_called[a] = join_called[b]
    /\ joined[a] = joined[b]

\* The two are level: the same call is at the same point with the same result.
VersionSync(a, b) ==
    /\ VersionSyncBut(a, b)
    /\ call[a] = call[b]

\* join_timeout on a handle without its JoinHandle: the call on the handle
\* of handles.rs has returned JoinedAlready, the one on the handle of
\* handles/mod.rs is still in recv_timeout.
VersionPending(a, b) ==
    /\ VersionSyncBut(a, b)
    /\ ~join[b]
    /\ call[a].pc = "returned"
    /\ call[a].op = "join_timeout"
    /\ call[a].res = Err("JoinedAlready")
    /\ call[b].pc = "recv_timeout"

\* A program that does to both handles the same, one after the other: when
\* the two are level either takes a step, and then the other one has to take
\* the step that makes them level again, or level but for the wait in
\* recv_timeout, which then ends as the channel has it.
NextVersions ==
    \/ /\ VersionSync(PlainOption, CellOption)
       /\ PlainOptionStep(PlainOption) \/ CellOptionStep(CellOption)
    \/ /\ ~VersionSync(PlainOption, CellOption)
       /\ ~VersionPending(PlainOption, CellOption)
       /\ PlainOptionStep(PlainOption) \/ CellOptionStep(CellOption)
       /\ (VersionSync(PlainOption, CellOption) \/ VersionPending(PlainOption, CellOption))'
    \/ /\ VersionPending(PlainOption, CellOption)
       /\ JoinTimeout_elapsed(CellOption) \/ JoinTimeout_received(CellOption)

VersionsSpec == Init /\ [][NextVersions]_vars

\* Threads that take the registry lock in a step of its own, and a thread
\* that takes snapshots entry by entry. The worker function of the first
\* thread reports its activity, taking the lock of its cell in a step of its
\* own and keeping at most one guard alive; all the functions return the same.
NextCellLock ==
    \/ \E t \in Threads :
          \/ Spawn(t)
          \/ register_thread_lock(t)
          \/ register_thread_insert(t)
          \/ t = 1 /\ ThreadScope_activity_lock(t)
          \/ CellWrites(t)
          \/ activity_lock[t] # WorkerThread(t) /\ WorkerReturn(t, 1)
          \/ deregister_thread_lock(t)
          \/ deregister_thread_remove(t)
          \/ ThreadGuard_drop_fields(t)
          \/ ThreadTerminates(t)
    \/ registered_threads_lock
    \/ \E k \in DOMAIN THREADS_REGISTRY :
          registered_threads_lock_cell(k) \/ registered_threads_clone(k)
    \/ registered_threads_return

\* Fair scheduling and fair locks: a thread that can take its next step takes
\* it, and a thread that waits for a lock that is free again and again gets it.
CellLockFairness ==
    /\ \A t \in Threads :
          /\ SF_vars(register_thread_lock(t))
          /\ WF_vars(register_thread_insert(t))
          /\ WF_vars(CellWrites(t))
          /\ SF_vars(deregister_thread_lock(t))
          /\ WF_vars(deregister_thread_remove(t))
    /\ SF_vars(\E k \in DOMAIN THREADS_REGISTRY : registered_threads_lock_cell(k))
    /\ WF_vars(\E k \in DOMAIN THREADS_REGISTRY : registered_threads_clone(k))
    /\ WF_vars(registered_threads_return)

CellLockSpec == Init /\ [][NextCellLock]_vars /\ CellLockFairness

\* Several threads at once, each with its own handle and its own scope: the
\* parent requests shutdowns; the worker functions report their activity,
\* with guards nested at most one deep, and return the same value.
NextPair ==
    \E t \in SelectThreads :
        \/ Spawn(t)
        \/ ThreadProgress(t)
        \/ WorkerReturn(t, 1)
        \/ RequestShutdown(t)
        \/ scope_guards[t] = << >> /\ \E text \in Texts : ThreadScope_activity(t, text)
        \/ scope_guards[t] = << >> /\ ThreadScope_idle(t)
        \/ scope_guards[t] = << >> /\ \E text \in Texts : ThreadScope_scoped_activity(t, text)
        \/ ThreadScopeActivityGuard_drop(t, 1)

PairSpec == Init /\ [][NextPair]_vars

\* The program of the crate example: every worker polls should_shutdown(); the
\* parent requests the shutdown and joins, with or without a timeout, through
\* the Thread or a MapThread made of it.
NextPoll ==
    \E t \in Threads :
        \/ Spawn(t)
        \/ ThreadProgress(t)
        \/ \E v \in Values : WorkerPoll(t, v)
        \/ RequestShutdown(t)
        \/ Join(t)
        \/ JoinReturns(t)
        \/ JoinTimeout(t)
        \/ JoinTimeout_elapsed(t)
        \/ JoinTimeout_received(t)
        \/ CallReturned(t)
        \/ Map(t)

\* Fair scheduling of a polling worker: its loop keeps iterating, and a
\* Relaxed store becomes visible to its loads in finite time.
PollFairness ==
    \A t \in Threads :
        /\ WF_vars(ThreadProgress(t))
        /\ WF_vars(\E v \in Values : WorkerPoll(t, v))
        /\ WF_vars(JoinReturns(t))

PollSpec == Init /\ [][NextPoll]_vars /\ PollFairness

\* The program of map.rs tests::request_shutdown: the handle is mapped before
\* anything else is called on it, and the requests are made on the MapThread.
NextMapPoll ==
    \E t \in Threads :
        \/ Spawn(t)
        \/ SpawnFails(t)
        \/ ThreadProgress(t)
        \/ \E v \in Values : WorkerPoll(t, v)
        \/ Map(t)
        \/ handle[t] = "MapThread" /\ RequestShutdown(t)
        \/ handle[t] = "MapThread" /\ Join(t)
        \/ JoinReturns(t)
        \/ handle[t] = "MapThread" /\ JoinTimeout(t)
        \/ JoinTimeout_elapsed(t)
        \/ JoinTimeout_received(t)
        \/ CallReturned(t)

MapPollSpec == Init /\ [][NextMapPoll]_vars /\ PollFairness

-----------------------------------------------------------------------------
(* Properties *)

\* The call on handle h has returned from method op.
ReturnedFrom(h, op) == call[h].pc = "returned" /\ call[h].op = op

\* The worker's outcome as the handle h reports it.
WorkerOutcome(h) == JoinOutcome(outcome[h], handle[h] = "MapThread")

IsOutcome(res) == res.kind \in {"Ok", "Join"}

\* C1: of the join() calls on a handle, only the first can return the worker's
\* outcome (the result, or a Join error), and it does unless a timed or select
\* join took the capability before it; every later join() returns
\* JoinedAlready; after a join() the capability is consumed.
C1_JoinOnce ==
    \A h \in Threads :
        ReturnedFrom(h, "join") =>
            /\ ~HasCapability(h)
            /\ ~call[h].first => call[h].res = Err("JoinedAlready")
            /\ (call[h].first /\ call[h].cap) =>
                   /\ call[h].res = WorkerOutcome(h)
                   /\ IsOutcome(call[h].res)
            /\ (call[h].first /\ ~call[h].cap) =>
                   /\ call[h].res = Err("JoinedAlready")
                   /\ joined[h]

\* A second join() has returned on a handle whose first join() got the outcome.
C1_Witness ==
    \E h \in Threads :
        /\ ReturnedFrom(h, "join")
        /\ ~call[h].first
        /\ ~call[h].cap
        /\ call[h].res = Err("JoinedAlready")
        /\ joined[h]
        /\ outcome[h].kind = "ok"

\* The join() call on h is the one that takes the capability, and is blocked
\* in JoinHandle::join.
BlockedInJoin(h) == call[h].pc = "os_join" /\ call[h].op = "join"

C2_JoinResult ==
    \A h \in Threads :
        (ReturnedFrom(h, "join") /\ call[h].cap) =>
            /\ outcome[h] # NoOutcome
            /\ \A v \in Values :
                   call[h].res = Ok(IF handle[h] = "MapThread" THEN Transform(v) ELSE v)
                       <=> outcome[h] = Returned(v)
            /\ call[h].res = Err("Join") <=> outcome[h] = Panicked
            /\ IsOutcome(call[h].res)

\* C2: the join() that takes the capability returns only after the worker
\* function returned or panicked, Ok(v) exactly when it returned v and a Join
\* error exactly when it panicked; while it is blocked no result is there; and
\* under fair scheduling it returns once the worker function is over.
C2_FirstJoin ==
    /\ [](C2_JoinResult)
    /\ [](\A h \in Threads : BlockedInJoin(h) => call[h].res = NoResult)
    /\ \A h \in Threads :
           (BlockedInJoin(h) /\ outcome[h] # NoOutcome) ~> ReturnedFrom(h, "join")

\* A join() that had to wait for a value has returned it.
C2_Witness ==
    \E h \in Threads :
        /\ ReturnedFrom(h, "join")
        /\ call[h].cap
        /\ call[h].res = Ok(MaxValue)
        /\ outcome[h] = Returned(MaxValue)

\* C3: once a call on the handle has returned the worker's outcome, a
\* registered_threads() snapshot has no entry for that thread.
C3_JoinedNotRegistered ==
    \A h \in Threads :
        (joined[h] \/ (call[h].pc = "returned" /\ IsOutcome(call[h].res))) =>
            current_thread_id(h) \notin DOMAIN registered_threads

\* An outcome was returned by a select_join and by a join_timeout.
C3_Witness ==
    \E h \in Threads :
        /\ joined[h]
        /\ call[h].pc = "returned"
        /\ call[h].op \in {"select_join", "join_timeout"}
        /\ IsOutcome(call[h].res)
        /\ THREADS_REGISTRY = << >>

\* C4: when the worker function panicked, join() and select_join() with the
\* capability return a Join error, and from the end of the guard's drop on the
\* registry has no entry for the thread.
C4_PanicStillDeregisters ==
    \A h \in Threads :
        outcome[h] = Panicked =>
            /\ ((ReturnedFrom(h, "join") \/ ReturnedFrom(h, "select_join")) /\ call[h].cap) =>
                   /\ call[h].res = Err("Join")
                   /\ current_thread_id(h) \notin DOMAIN THREADS_REGISTRY
            /\ thread_finished(h) => current_thread_id(h) \notin DOMAIN THREADS_REGISTRY

\* select_join returned the Join error of a panicked worker.
C4_Witness ==
    \E h \in Threads :
        /\ ReturnedFrom(h, "select_join")
        /\ call[h].cap
        /\ outcome[h] = Panicked
        /\ call[h].res = Err("Join")

\* C5: the registry has a key for a thread exactly while the thread's
\* ThreadGuard is alive.
C5_RegisteredIffGuardAlive ==
    /\ DOMAIN THREADS_REGISTRY \subseteq {current_thread_id(t) : t \in Threads}
    /\ \A t \in Threads :
           current_thread_id(t) \in DOMAIN THREADS_REGISTRY <=> GuardAlive(t)

\* A guard is in its drop, after the signal and before the removal.
C5_Witness ==
    \E t \in Threads :
        /\ wpc[t] = "signalled"
        /\ join_check[t].msg = 1
        /\ current_thread_id(t) \in DOMAIN THREADS_REGISTRY

\* The step is the return of JoinTimeout from the join_timeout() call on h.
TimesOut(h) ==
    /\ call[h].pc = "recv_timeout"
    /\ call'[h].pc = "returned"
    /\ call'[h].res = Err("JoinTimeout")

\* C6: a join_timeout() that ends with JoinTimeout had the join capability and
\* leaves it where it was, and leaves the join-check channel as it was; the
\* handle that got JoinTimeout can still be joined.
C6_TimeoutKeepsCapability ==
    /\ [][\A h \in Threads :
             TimesOut(h) =>
                 /\ HasCapability(h)
                 /\ join' = join
                 /\ map_join' = map_join
                 /\ join_check' = join_check]_vars
    /\ [](\A h \in Threads :
             (ReturnedFrom(h, "join_timeout") /\ call[h].res = Err("JoinTimeout")) =>
                 HasCapability(h))

\* A join_timeout() returned JoinTimeout; the worker has ended since, and the
\* handle still has the capability.
C6_Witness ==
    \E h \in Threads :
        /\ ReturnedFrom(h, "join_timeout")
        /\ call[h].res = Err("JoinTimeout")
        /\ HasCapability(h)
        /\ thread_finished(h)

\* C7: join_timeout() returns JoinTimeout only when, at the deadline, the
\* worker's guard has neither sent the signal nor dropped its sender; a
\* join_timeout() made on an unjoined handle after the guard was dropped
\* returns the worker's outcome.
C7_TimeoutOnlyWhileRunning ==
    /\ [][\A h \in Threads :
             TimesOut(h) =>
                 /\ wpc[h] \in {"spawned", "running"}
                 /\ join_check[h].msg = 0
                 /\ join_check[h].sender]_vars
    /\ [](\A h \in Threads :
             (ReturnedFrom(h, "join_timeout") /\ call[h].cap /\ call[h].late) =>
                 /\ call[h].res = WorkerOutcome(h)
                 /\ IsOutcome(call[h].res))

\* join_timeout(), called after the guard's drop, returned the outcome.
C7_Witness ==
    \E h \in Threads :
        /\ ReturnedFrom(h, "join_timeout")
        /\ call[h].cap
        /\ call[h].late
        /\ IsOutcome(call[h].res)

\* C8: a join_timeout() on a handle whose join capability was consumed before
\* returns JoinedAlready.
C8_TimeoutAfterJoin ==
    \A h \in Threads :
        (ReturnedFrom(h, "join_timeout") /\ ~call[h].cap) =>
            call[h].res = Err("JoinedAlready")

\* join_timeout() returned JoinedAlready on a joined handle whose channel is
\* empty: the signal had been received by the call that joined.
C8_Witness ==
    \E h \in Threads :
        /\ ReturnedFrom(h, "join_timeout")
        /\ ~call[h].cap
        /\ joined[h]
        /\ join_check[h].msg = 0
        /\ call[h].res = Err("JoinedAlready")

\* C9: should_shutdown() is false until request_shutdown() is called on the
\* thread's handle and true from then on; a further request_shutdown() would
\* leave the flags as they are.
C9_ShutdownRequested ==
    \A t \in Threads :
        /\ should_shutdown(t) = requested[t]
        /\ requested[t] => store(shutdown, t, TRUE) = shutdown
        /\ store(store(shutdown, t, TRUE), t, TRUE) = store(shutdown, t, TRUE)

\* A running worker whose handle was asked to shut down.
C9_Witness ==
    \E t \in Threads :
        /\ wpc[t] = "running"
        /\ requested[t]
        /\ should_shutdown(t)

\* The flag of a scope starts false: at spawn, and in a fresh mock.
StartsFalse(t) == (wpc[t] = "unspawned" /\ wpc'[t] = "spawned") => ~shutdown'[t]

\* C10 as claimed: every shutdown flag, the mock scope's included, starts false
\* and never goes from true to false.
C10_Original ==
    [][/\ \A t \in Threads : StartsFalse(t) /\ (shutdown[t] => shutdown'[t])
       /\ mock_shutdown => mock_shutdown']_vars

\* C10: the shutdown flag of a spawned thread starts false and never goes from
\* true to false, whatever is called on handles, scopes and the mock scope.
C10_ShutdownMonotonic ==
    [][\A t \in Threads : StartsFalse(t) /\ (shutdown[t] => shutdown'[t])]_vars

\* The flag of a thread is still set after the thread ended and its handle was
\* mapped and joined, while the mock's flag is set too.
C10_Witness ==
    \E t \in Threads :
        /\ shutdown[t]
        /\ handle[t] = "MapThread"
        /\ joined[t]
        /\ mock_shutdown

\* C11: when the parent has called request_shutdown() and the worker polls
\* should_shutdown() and returns once it reads true, then under fair scheduling
\* the worker's thread eventually ends, a join() waiting for it eventually
\* returns, and a join() that had the capability returns Ok.
C11_PollingWorkerStops ==
    \A h \in Threads :
        /\ (requested[h] /\ wpc[h] \in {"spawned", "running"}) ~> thread_finished(h)
        /\ (requested[h] /\ BlockedInJoin(h))
               ~> (ReturnedFrom(h, "join") /\ call[h].res.kind = "Ok")
        /\ []((ReturnedFrom(h, "join") /\ call[h].cap) => call[h].res.kind = "Ok")

C11_Witness ==
    \E h \in Threads :
        /\ requested[h]
        /\ ReturnedFrom(h, "join")
        /\ call[h].res = Ok(outcome[h].v)

\* C12: a step in which a handle's shutdown flag is set (request_shutdown)
\* changes nothing else: the worker (its position, outcome, activity and
\* guards), the registry, the handle's join capability and call, the
\* join-check channel and the flags of the other threads stay as they were; so
\* a worker's steps are its own, whatever was requested.
C12_RequestShutdownFrame ==
    [][\A h \in Threads :
          (shutdown'[h] # shutdown[h] \/ requested'[h] # requested[h]) =>
              /\ UNCHANGED <<workerVars, join_check, handleVars, scopeVars, lockVars>>
              /\ \A g \in AllThreads \ {h} : shutdown'[g] = shutdown[g]]_vars

C12_Witness ==
    \E h \in Threads :
        /\ requested[h] /\ shutdown[h]
        /\ wpc[h] = "running"
        /\ current_thread_id(h) \in DOMAIN THREADS_REGISTRY
        /\ HasCapability(h)
        /\ join_check[h] = bounded

\* The entry of thread t in a registered_threads() snapshot taken now.
SnapshotOf(t) == registered_threads[current_thread_id(t)]

\* C13: with guards released last-created-first, at any nesting depth: while
\* guards are alive the snapshot shows the text of the innermost one, every
\* guard holds the value that was active just before it was created (for an
\* inner guard that is the text of the guard around it), and releasing a
\* guard makes the snapshot show that value again, "None" included.
C13_NestedGuards ==
    /\ [](\A t \in Threads :
             LET g == scope_guards[t]
             IN  g # << >> =>
                   /\ current_thread_id(t) \in DOMAIN registered_threads
                   /\ SnapshotOf(t).activity = g[Len(g)].text
                   /\ \A i \in DOMAIN g :
                         /\ g[i].current = g[i].before
                         /\ i > 1 => g[i].before = g[i - 1].text)
    /\ [][\A t \in Threads :
             Len(scope_guards'[t]) < Len(scope_guards[t]) =>
                 SnapshotOf(t)'.activity = scope_guards[t][Len(scope_guards[t])].before]_vars

C13_Witness ==
    \E t \in Threads :
        LET g == scope_guards[t]
        IN  /\ Len(g) = 2
            /\ g[1].before = "None"
            /\ g[1].text # g[2].text
            /\ SnapshotOf(t).activity = g[2].text

\* C14: the activity a snapshot reports for a registered thread is what was
\* last written on its scope: "None" when the thread registers, the text once
\* activity(text) has run, "None" once idle() has run, and it changes by no
\* step other than a scope operation of that thread.
C14_SnapshotActivity ==
    [][\A t \in Threads :
          /\ ThreadGuard_new(t) => SnapshotOf(t)'.activity = "None"
          /\ \A text \in Texts :
                ThreadScope_activity(t, text) => SnapshotOf(t)'.activity = text
          /\ ThreadScope_idle(t) => SnapshotOf(t)'.activity = "None"
          /\ ( /\ current_thread_id(t) \in DOMAIN registered_threads
               /\ current_thread_id(t) \in DOMAIN registered_threads'
               /\ SnapshotOf(t)'.activity # SnapshotOf(t).activity ) => ScopeOps(t)]_vars

C14_Witness ==
    \E t \in Threads :
        /\ current_thread_id(t) \in DOMAIN registered_threads
        /\ scope_guards[t] = << >>
        /\ SnapshotOf(t).activity \in Texts

\* C15: from its registration to its deregistration a thread has an entry in
\* every snapshot, with short_name the name given to Builder::new and name the
\* name given to Builder::full_name, or the short name when none was given.
C15_SnapshotNames ==
    \A t \in Threads :
        GuardAlive(t) =>
            /\ current_thread_id(t) \in DOMAIN registered_threads
            /\ SnapshotOf(t).short_name = config[t].name
            /\ SnapshotOf(t).name =
                   IF config[t].full_name = NoFullName
                   THEN config[t].name ELSE config[t].full_name

C15_Witness ==
    \E t \in Threads :
        /\ GuardAlive(t)
        /\ config[t].full_name = NoFullName
        /\ SnapshotOf(t).name = ShortName(t)

\* The worker function of t is over and its guard has begun its drop.
ExitedBody(t) == wpc[t] \in {"signalled", "deregistered", "disconnected", "terminated"}

C17_SelectJoinFrame ==
    /\ [](\A h \in SelectThreads :
             (ReturnedFrom(h, "select_join") /\ call[h].cap) =>
                 call[h].res = WorkerOutcome(h))
    /\ [][\A h \in SelectThreads :
             (call'[h] # call[h] /\ call'[h].op = "select_join") =>
                 \A g \in SelectThreads \ {h} :
                     /\ handle'[g] = handle[g]
                     /\ join'[g] = join[g] /\ map_join'[g] = map_join[g]
                     /\ join_check'[g] = join_check[g]
                     /\ shutdown'[g] = shutdown[g]
                     /\ call'[g] = call[g]
                     /\ wpc'[g] = wpc[g] /\ outcome'[g] = outcome[g]]_vars

C17_Witness ==
    \E h, g \in SelectThreads :
        /\ h # g
        /\ ReturnedFrom(h, "select_join") /\ call[h].cap
        /\ call[h].res = WorkerOutcome(h)
        /\ wpc[g] = "running"
        /\ HasCapability(g)
        /\ join_check[g] = bounded

\* C18: a readiness wait leaves the signal in the channel: once one has
\* reported a handle, a join_timeout() on the handle that still has the join
\* capability finds its receive ready, so it does not time out, and it and a
\* join() return the worker's outcome.
C18_ReadyDoesNotConsume ==
    \A h \in Threads :
        (ready_reported[h] /\ call[h].cap) =>
            /\ (call[h].pc = "recv_timeout") => recv_ready(join_check[h])
            /\ (ReturnedFrom(h, "join_timeout") \/ ReturnedFrom(h, "join")) =>
                   call[h].res = WorkerOutcome(h)

C18_Witness ==
    \E h \in Threads :
        /\ ready_reported[h]
        /\ ReturnedFrom(h, "join_timeout") /\ call[h].cap
        /\ call[h].res = WorkerOutcome(h)

\* C19: the transform given to map() runs only in the step in which a join of
\* the mapped handle (join, join_timeout or select_join) returns Ok: after the
\* worker returned normally and its thread ended, never in map() itself, never
\* in a call that ends in Join (the worker panicked), JoinTimeout or
\* JoinedAlready; and at most once, as it runs only in the handle's first
\* return of an outcome.
C19_TransformRunsInJoin ==
    /\ [](\A h \in Threads :
             /\ call[h].ran =>
                   /\ call[h].pc = "returned"
                   /\ call[h].op \in {"join", "join_timeout", "select_join"}
                   /\ handle[h] = "MapThread"
                   /\ outcome[h].kind = "ok" /\ thread_finished(h)
                   /\ call[h].res = Ok(Transform(outcome[h].v))
             /\ (call[h].pc = "returned" /\ call[h].res.kind = "Ok"
                    /\ handle[h] = "MapThread") => call[h].ran)
    /\ [][\A h \in Threads :
             /\ (call'[h].ran /\ ~call[h].ran) =>
                   ~joined[h] /\ joined'[h] /\ call[h].pc = "os_join"
             /\ joined[h] => joined'[h]]_vars

C19_Witness ==
    \E h \in Threads :
        /\ call[h].ran
        /\ ReturnedFrom(h, "join_timeout")
        /\ call[h].res = Ok(Transform(outcome[h].v))

\* C20: a spawn that fails returns Err(Spawn), gives no handle and leaves the
\* registry as it was; a thread whose spawn failed never has an entry, since an
\* entry is inserted only by the first step of a thread the OS has started.
C20_SpawnFailureLeavesRegistry ==
    /\ [](\A t \in Threads :
             /\ ReturnedFrom(t, "spawn") =>
                   call[t].res = Err("Spawn") /\ wpc[t] = "spawn_failed"
             /\ wpc[t] = "spawn_failed" =>
                   /\ current_thread_id(t) \notin DOMAIN THREADS_REGISTRY
                   /\ handle[t] = "none")
    /\ [][\A t \in Threads :
             /\ (wpc'[t] = "spawn_failed" /\ wpc[t] # "spawn_failed") =>
                   THREADS_REGISTRY' = THREADS_REGISTRY
             /\ ( /\ current_thread_id(t) \in DOMAIN THREADS_REGISTRY'
                  /\ current_thread_id(t) \notin DOMAIN THREADS_REGISTRY ) =>
                   wpc[t] = "spawned" /\ wpc'[t] = "running"]_vars

C20_Witness ==
    \E t \in Threads :
        /\ wpc[t] = "spawn_failed"
        /\ ReturnedFrom(t, "spawn")
        /\ call[t].res = Err("Spawn")
        /\ current_thread_id(t) \notin DOMAIN registered_threads

\* C21: map() leaves the flag and the join-check channel as they are, and the
\* MapThread uses them: a request made on the mapped handle sets the flag that
\* should_shutdown() of the worker reads, the polling worker then ends, and the
\* mapped handle's join returns the transform of the worker's result.
C21_MapKeepsFlagAndReceiver ==
    /\ [][\A h \in Threads :
             /\ (handle[h] = "Thread" /\ handle'[h] = "MapThread") =>
                   shutdown'[h] = shutdown[h] /\ join_check'[h] = join_check[h]
             /\ (handle[h] = "MapThread" /\ ~requested[h] /\ requested'[h]) =>
                   should_shutdown(h)']_vars
    /\ \A h \in Threads :
          /\ [](requested[h] => handle[h] = "MapThread" /\ should_shutdown(h))
          /\ []((call[h].pc = "returned" /\ call[h].cap) =>
                   (call[h].res = Ok(Transform(outcome[h].v))
                      \/ call[h].res = Err("JoinTimeout")))
          /\ (requested[h] /\ wpc[h] \in {"spawned", "running"}) ~> thread_finished(h)
          /\ (requested[h] /\ call[h].pc = "os_join" /\ call[h].cap)
                 ~> (call[h].pc = "returned"
                       /\ call[h].res = Ok(Transform(outcome[h].v)))

C21_Witness ==
    \E h \in Threads :
        /\ handle[h] = "MapThread"
        /\ requested[h]
        /\ ReturnedFrom(h, "join") /\ call[h].cap
        /\ call[h].res = Ok(Transform(outcome[h].v))

\* C22: a thread whose worker function is running has its entry in the
\* registry, also after the function dropped its ThreadScope; the entry goes
\* only in the deregister step of the guard's drop, after the function ended.
C22_RegisteredWhileRunning ==
    /\ [](\A t \in Threads :
             wpc[t] = "running" => current_thread_id(t) \in DOMAIN registered_threads)
    /\ [][\A t \in Threads :
             ( /\ current_thread_id(t) \in DOMAIN THREADS_REGISTRY
               /\ current_thread_id(t) \notin DOMAIN THREADS_REGISTRY' ) =>
                 wpc[t] = "signalled" /\ wpc'[t] = "deregistered"]_vars

C22_Witness ==
    \E t \in Threads :
        /\ wpc[t] = "running"
        /\ scope_dropped[t]
        /\ current_thread_id(t) \in DOMAIN registered_threads

\* C23: while registered_threads() copies the registry no entry is inserted
\* or removed, so the threads of the returned list are the registry's keys at
\* one instant of the call; the list, once returned, is changed by no later
\* registration or deregistration.
C23_SnapshotPointInTime ==
    [][/\ observer.pc = "copying" =>
            /\ DOMAIN THREADS_REGISTRY' = DOMAIN THREADS_REGISTRY
            /\ observer'.pc = "returned" =>
                  DOMAIN observer'.result = DOMAIN THREADS_REGISTRY
       /\ (observer.pc = "returned" /\ observer'.pc = "returned") =>
            observer'.result = observer.result]_vars

C23_Witness ==
    /\ observer.pc = "returned"
    /\ DOMAIN observer.result # {}
    /\ DOMAIN THREADS_REGISTRY = {}

\* C30: the registry lock is held exactly by a worker thread between the two
\* halves of its insert or of its remove and by a snapshot between the two
\* halves of its copy; the holder's next step releases it and waits for
\* nothing. It is not held by a thread whose worker function runs, nor on
\* behalf of a call blocked in join, join_timeout or a select.
C30_LockScope ==
    /\ [](/\ registry_lock = Observer <=> observer.pc = "copying"
          /\ observer.pc = "copying" => ENABLED registered_threads_collect
          /\ \A t \in Threads :
                /\ registry_lock = WorkerThread(t) <=>
                       wpc[t] \in {"registering", "deregistering"}
                /\ wpc[t] = "registering" => ENABLED register_thread_insert(t)
                /\ wpc[t] = "deregistering" => ENABLED deregister_thread_remove(t)
                /\ wpc[t] = "running" => registry_lock # WorkerThread(t))
    /\ [][\A t \in Threads :
            call'[t] # call[t] => registry_lock' = registry_lock]_vars

C30_Witness ==
    \E t \in Threads :
        /\ call[t].pc = "os_join"
        /\ wpc[t] = "deregistering"
        /\ registry_lock = WorkerThread(t)

\* C24: a returned call carries Ok or an error kind of its own operation:
\* spawn only Spawn; join and select_join only Join or JoinedAlready;
\* join_timeout only Join, JoinTimeout or JoinedAlready. A call in progress is
\* at one of the points where the code waits, none of them a panic.
C24_ErrorKindsPerOperation ==
    \A h \in Threads :
        /\ call[h].pc \in {"idle", "os_join", "recv_timeout", "selected", "returned"}
        /\ call[h].pc = "returned" =>
              /\ call[h].op \in {"spawn", "join", "select_join", "join_timeout"}
              /\ call[h].res.kind \in {"Ok"} \cup ErrorKind
              /\ call[h].op = "spawn" => call[h].res.kind = "Spawn"
              /\ call[h].op \in {"join", "select_join"} =>
                    call[h].res.kind \in {"Ok", "Join", "JoinedAlready"}
              /\ call[h].op = "join_timeout" =>
                    call[h].res.kind \in {"Ok", "Join", "JoinTimeout", "JoinedAlready"}

C24_Witness ==
    \E h \in Threads :
        /\ ReturnedFrom(h, "join_timeout")
        /\ call[h].res = Err("Join")
        /\ outcome[h] = Panicked

\* C25: in every state where the parent can receive the join-check signal of
\* a thread, or sees its handle ready in a select, the registry has no entry
\* for that thread.
C25_DeregisteredBeforeSignal ==
    \A t \in Threads :
        (handle[t] \in HANDLES /\ recv_ready(join_check[t])) =>
            current_thread_id(t) \notin DOMAIN THREADS_REGISTRY

\* C26: the join-check channel of a thread never holds more than one message.
\* A message is added only by the step that ends the worker function, which
\* finds the channel empty, is always possible (it does not wait) and happens
\* once, because a thread never returns to its function; a message leaves the
\* channel only after that step, so at most one receive obtains it.
C26_OneSignal ==
    /\ [](\A t \in Threads :
             /\ join_check[t].msg <= Capacity
             /\ (wpc[t] = "running" /\ scope_guards[t] = << >>) =>
                    ENABLED WorkerPanic(t))
    /\ [][\A t \in Threads :
             /\ join_check'[t].msg > join_check[t].msg =>
                   /\ wpc[t] = "running" /\ wpc'[t] = "signalled"
                   /\ join_check[t].msg = 0
                   /\ join_check'[t].msg = 1
             /\ wpc'[t] = "running" => wpc[t] \in {"spawned", "running"}
             /\ join_check'[t].msg < join_check[t].msg =>
                   wpc[t] \notin {"unspawned", "spawned", "running"}]_vars

C26_Witness ==
    \E t \in Threads :
        /\ wpc[t] = "signalled"
        /\ join_check[t].receiver
        /\ join_check[t].msg = 0
        /\ call[t].pc \in {"os_join", "selected"}

\* C27: no step of a join() call changes the join-check channel; a join()
\* on an unjoined handle waits for nothing but the end of the thread, whatever
\* the channel holds, and returns the worker's terminal outcome.
C27_JoinIgnoresChannel ==
    /\ [](\A h \in Threads :
             /\ (BlockedInJoin(h) /\ thread_finished(h)) => ENABLED JoinReturns(h)
             /\ (handle[h] \in HANDLES /\ call[h].pc = "idle") => ENABLED Join(h)
             /\ (ReturnedFrom(h, "join") /\ call[h].cap) =>
                    /\ outcome[h] # NoOutcome
                    /\ call[h].res = WorkerOutcome(h))
    /\ [][\A h \in Threads :
             (call'[h] # call[h] /\ call'[h].op = "join") =>
                 join_check'[h] = join_check[h]]_vars

C27_Witness ==
    \E h \in Threads :
        /\ ReturnedFrom(h, "join")
        /\ call[h].cap
        /\ IsOutcome(call[h].res)
        /\ join_check[h] = [msg |-> 1, sender |-> FALSE, receiver |-> TRUE]

\* C28: when the handle was dropped unjoined before the worker function ends,
\* the guard's send finds no receiver and changes nothing; the function can
\* still end (the send does not wait), its outcome is what it ended with, and
\* the thread goes on to remove its registry entry and to terminate.
C28_DroppedHandleExit ==
    /\ [](\A t \in Threads :
             (handle[t] = "dropped" /\ wpc[t] = "running") =>
                 ENABLED (\E v \in Values : WorkerReturn(t, v)))
    /\ [][\A t \in Threads :
             /\ (wpc[t] = "running" /\ wpc'[t] # "running" /\ ~join_check[t].receiver) =>
                    /\ wpc'[t] = "signalled"
                    /\ join_check'[t] = join_check[t]
             /\ wpc[t] \notin {"spawned", "running"} => outcome'[t] = outcome[t]]_vars
    /\ \A t \in Threads :
          (handle[t] = "dropped" /\ wpc[t] = "signalled") ~>
              (wpc[t] = "terminated" /\ current_thread_id(t) \notin DOMAIN THREADS_REGISTRY)

C28_Witness ==
    \E t \in Threads :
        /\ handle[t] = "dropped"
        /\ ~joined[t]
        /\ wpc[t] = "terminated"
        /\ outcome[t].kind = "ok"
        /\ current_thread_id(t) \notin DOMAIN THREADS_REGISTRY

\* C29: a step that sets the shutdown flag of one thread, or that changes the
\* activity cell or the guards of one scope, leaves should_shutdown() and the
\* reported activity of every other thread as they were; the registry entries
\* of two threads never name the same activity cell.
C29_NoSharingBetweenThreads ==
    /\ [](\A a, b \in SelectThreads :
             ( /\ a # b
               /\ current_thread_id(a) \in DOMAIN THREADS_REGISTRY
               /\ current_thread_id(b) \in DOMAIN THREADS_REGISTRY ) =>
                 THREADS_REGISTRY[current_thread_id(a)].activity
                     # THREADS_REGISTRY[current_thread_id(b)].activity)
    /\ [][\A a \in SelectThreads :
             ( \/ shutdown'[a] # shutdown[a]
               \/ requested'[a] # requested[a]
               \/ activity'[a] # activity[a]
               \/ scope_guards'[a] # scope_guards[a] ) =>
                 \A b \in SelectThreads \ {a} :
                     /\ should_shutdown(b)' = should_shutdown(b)
                     /\ (current_thread_id(b) \in DOMAIN THREADS_REGISTRY) =>
                           /\ current_thread_id(b) \in DOMAIN THREADS_REGISTRY'
                           /\ SnapshotOf(b)' = SnapshotOf(b)]_vars

C29_Witness ==
    \E a, b \in SelectThreads :
        /\ a # b
        /\ wpc[a] = "running" /\ wpc[b] = "running"
        /\ requested[a] /\ should_shutdown(a) /\ ~should_shutdown(b)
        /\ SnapshotOf(a).activity = "A"
        /\ scope_guards[a] # << >>
        /\ SnapshotOf(b).activity = "None"

\* C31: threads whose guards are alive have different identities, and each
\* has under its identity the entry its own guard inserted. A register finds
\* no entry under its key and changes no other entry; a deregister removes
\* the entry of its own thread and no other; a thread that is past its
\* deregister, the terminated ones among them, has no entry to be removed.
C31_UniqueIdentities ==
    /\ [](\A a \in SelectThreads :
             /\ GuardAlive(a) =>
                   /\ current_thread_id(a) \in DOMAIN THREADS_REGISTRY
                   /\ THREADS_REGISTRY[current_thread_id(a)] = RegisteredStatus_new(a)
                   /\ \A b \in SelectThreads \ {a} :
                         GuardAlive(b) => current_thread_id(a) # current_thread_id(b)
             /\ GuardDropped(a) => current_thread_id(a) \notin DOMAIN THREADS_REGISTRY)
    /\ [][\A a \in SelectThreads :
             /\ (wpc[a] = "spawned" /\ wpc'[a] = "running") =>
                   /\ current_thread_id(a) \notin DOMAIN THREADS_REGISTRY
                   /\ DOMAIN THREADS_REGISTRY' =
                          DOMAIN THREADS_REGISTRY \cup {current_thread_id(a)}
                   /\ \A k \in DOMAIN THREADS_REGISTRY :
                          THREADS_REGISTRY'[k] = THREADS_REGISTRY[k]
             /\ (wpc[a] = "signalled" /\ wpc'[a] = "deregistered") =>
                   /\ DOMAIN THREADS_REGISTRY' =
                          DOMAIN THREADS_REGISTRY \ {current_thread_id(a)}
                   /\ \A k \in DOMAIN THREADS_REGISTRY' :
                          THREADS_REGISTRY'[k] = THREADS_REGISTRY[k]]_vars

C31_Witness ==
    \E a, b \in SelectThreads :
        /\ a # b
        /\ wpc[a] = "deregistered"
        /\ wpc[b] = "running"
        /\ DOMAIN THREADS_REGISTRY = {current_thread_id(b)}

\* C32: a guard holds the value the cell had when the guard was created, and
\* releasing it writes that value into the cell whatever the cell holds then:
\* a text set by activity() or a None set by idle() while the guard was alive
\* is gone after the release, and the snapshot shows the captured value.
C32_ReleaseOverwrites ==
    /\ [](\A t \in Threads : \A i \in DOMAIN scope_guards[t] :
             scope_guards[t][i].current = scope_guards[t][i].before)
    /\ [][\A t \in Threads :
             Len(scope_guards'[t]) < Len(scope_guards[t]) =>
                 \E i \in DOMAIN scope_guards[t] :
                     /\ scope_guards'[t] = Remove(scope_guards[t], i)
                     /\ activity'[t] = scope_guards[t][i].before
                     /\ SnapshotOf(t)'.activity = scope_guards[t][i].before]_vars

C32_Witness ==
    \E t \in Threads :
        /\ Len(scope_guards[t]) = 1
        /\ scope_guards[t][1].text = "A"
        /\ scope_guards[t][1].before = "None"
        /\ SnapshotOf(t).activity = "B"
        /\ ENABLED ( /\ ThreadScopeActivityGuard_drop(t, 1)
                     /\ activity'[t] = "None" )

\* C36: with two guards alive of which the second was created right after
\* the first (it captured the first one's text), releasing the first one
\* first writes the value from before the first guard and leaves the second
\* guard holding the first one's text; the release of a last guard writes
\* what it holds, so after both releases the cell has the first guard's text.
C36_OuterFirstRelease ==
    [][\A t \in Threads :
         LET g == scope_guards[t]
         IN  /\ ( /\ Len(g) = 2
                  /\ g[2].before = g[1].text
                  /\ scope_guards'[t] = <<g[2]>>
                  /\ g[1] # g[2] ) =>
                    /\ activity'[t] = g[1].before
                    /\ scope_guards'[t][1].current = g[1].text
             /\ (Len(g) = 1 /\ scope_guards'[t] = << >>) =>
                    SnapshotOf(t)'.activity = g[1].current]_vars

C36_Witness ==
    \E t \in Threads :
        /\ Len(scope_guards[t]) = 2
        /\ scope_guards[t][1].before = "None"
        /\ scope_guards[t][1].text = "A"
        /\ scope_guards[t][2].before = "A"
        /\ scope_guards[t][2].text = "B"
        /\ SnapshotOf(t).activity = "B"
        /\ ENABLED ( /\ ThreadScopeActivityGuard_drop(t, 1)
                     /\ activity'[t] = "None"
                     /\ scope_guards'[t][1].current = "A" )

\* C33: whatever step one of the two handles (a Thread and a MapThread of
\* threads that do the same) or its thread takes, the other can take a step
\* after which the two are level again: the same call is at the same point
\* with the same error kind, or with Ok(f(v)) on the MapThread where the
\* Thread has Ok(v). Neither handle ever returns what the other could not.
C33_MapThreadRefinesThread ==
    /\ ~TwinSync(Plain, Mapped) => ENABLED NextTwin
    /\ \A h \in {Plain, Mapped} :
          (call[h].pc = "returned" /\ call[h].res.kind = "Ok" /\ thread_finished(h)) =>
              call[h].res = mapped_result(Ok(outcome[h].v), handle[h] = "MapThread")

C33_Witness ==
    /\ TwinSync(Plain, Mapped)
    /\ handle[Mapped] = "MapThread"
    /\ ReturnedFrom(Plain, "join_timeout")
    /\ ReturnedFrom(Mapped, "join_timeout")
    /\ call[Plain].res = Ok(outcome[Plain].v)
    /\ call[Mapped].res = Ok(Transform(outcome[Plain].v))

\* C34: map() can be called on a handle whose JoinHandle was taken, and the
\* MapThread it gives has a closure but no JoinHandle in it: the capability
\* does not come back, each of join, join_timeout and select_join on it
\* returns JoinedAlready (join_timeout does not time out, the thread being
\* over), and the transform runs only in a call that began with the capability.
C34_MapOfConsumedHandle ==
    /\ [](\A h \in Threads :
             /\ (handle[h] = "Thread" /\ ~join[h] /\ call[h].pc = "idle") =>
                    ENABLED Map(h)
             /\ (handle[h] = "MapThread" /\ ~join[h]) => ~HasCapability(h)
             /\ ( /\ handle[h] = "MapThread"
                  /\ call[h].pc = "returned"
                  /\ call[h].op \in {"join", "join_timeout", "select_join"}
                  /\ ~call[h].cap ) =>
                    call[h].res = Err("JoinedAlready") /\ ~call[h].ran
             /\ call[h].ran => call[h].cap)
    /\ [][\A h \in Threads :
             /\ (handle[h] \in HANDLES /\ ~HasCapability(h)) => ~HasCapability(h)'
             /\ (handle[h] = "Thread" /\ handle'[h] = "MapThread") =>
                    join'[h] = join[h] /\ map_join'[h]]_vars

C34_Witness ==
    \E h \in Threads :
        /\ handle[h] = "MapThread"
        /\ map_join[h] /\ ~join[h]
        /\ joined[h]
        /\ call[h].pc = "idle"
        /\ ENABLED ( /\ Join(h)
                     /\ call'[h].res = Err("JoinedAlready")
                     /\ ~call'[h].ran )

\* C35: the step in which spawn returns the handle leaves the registry as it
\* is; the entry is inserted by a step of the new thread, and the parent
\* waits for no such step: while the new thread has not yet run, the parent
\* holds the handle, a snapshot has no entry for the thread, and the thread
\* does not hold the registry lock a registered_threads() call needs.
C35_RegistrationNotSynchronised ==
    /\ [](\A t \in Threads :
             wpc[t] = "spawned" =>
                 /\ handle[t] # "none"
                 /\ current_thread_id(t) \notin DOMAIN registered_threads
                 /\ registry_lock # WorkerThread(t))
    /\ [][\A t \in Threads :
             /\ (handle[t] = "none" /\ handle'[t] # "none") =>
                    THREADS_REGISTRY' = THREADS_REGISTRY
             /\ ( /\ current_thread_id(t) \notin DOMAIN THREADS_REGISTRY
                  /\ current_thread_id(t) \in DOMAIN THREADS_REGISTRY' ) =>
                    /\ wpc[t] = "registering"
                    /\ call'[t] = call[t] /\ handle'[t] = handle[t]]_vars

C35_Witness ==
    \E t \in Threads :
        /\ handle[t] = "Thread"
        /\ wpc[t] = "spawned"
        /\ observer.pc = "copying"
        /\ ENABLED ( /\ registered_threads_collect
                     /\ current_thread_id(t) \notin DOMAIN observer'.result )

C38_MockScopesShareState ==
    /\ [](\A i \in DOMAIN mock_scopes :
            /\ ThreadScope_should_shutdown(mock_scopes[i]) = mock_shutdown
            /\ mock_scopes[i].activity = MockCell)
    /\ [](DOMAIN THREADS_REGISTRY \subseteq {current_thread_id(t) : t \in Threads})
    /\ [][(mock_shutdown' # mock_shutdown \/ mock_scopes' # mock_scopes) =>
            /\ UNCHANGED <<THREADS_REGISTRY, activity, shutdown>>
            /\ \A i \in DOMAIN mock_scopes' :
                  ThreadScope_should_shutdown(mock_scopes[i])' = mock_shutdown']_vars

\* Two scopes of a mock whose flag is set, both reading true, next to a
\* registered thread whose own flag is clear; set_shutdown(false) then makes
\* both read false.
C38_Witness ==
    /\ Len(mock_scopes) = 2
    /\ mock_shutdown
    /\ \A i \in DOMAIN mock_scopes : ThreadScope_should_shutdown(mock_scopes[i])
    /\ \E t \in Threads :
          /\ current_thread_id(t) \in DOMAIN THREADS_REGISTRY
          /\ ~shutdown[t]
    /\ ENABLED (/\ MockThreadScope_set_shutdown(FALSE)
                /\ \A i \in DOMAIN mock_scopes' :
                      ~ThreadScope_should_shutdown(mock_scopes[i])')

\* C39: whatever step one of the two versions of the Thread handle (or its
\* thread) takes in a sequence of join, join_timeout and request_shutdown
\* calls, the other version can take a step after which the two are level
\* again, at most with the newer one still in the recv_timeout that the older
\* one skips on a handle without its JoinHandle; that wait never times out,
\* and two calls that have both returned have returned the same result.
C39_VersionsAgree ==
    /\ (~VersionSync(PlainOption, CellOption) /\ ~VersionPending(PlainOption, CellOption))
          => ENABLED NextVersions
    /\ VersionPending(PlainOption, CellOption)
          => /\ ~ENABLED JoinTimeout_elapsed(CellOption)
             /\ ENABLED (JoinTimeout_received(CellOption)
                            /\ VersionSync(PlainOption, CellOption)')
    /\ (call[PlainOption].pc = "returned" /\ call[CellOption].pc = "returned")
          => call[PlainOption].res = call[CellOption].res

\* The older handle has returned JoinedAlready from join_timeout without
\* receiving (the thread's message is still in its channel) while the newer
\* one, called the same way, is still waiting in recv_timeout.
C39_Witness ==
    /\ VersionPending(PlainOption, CellOption)
    /\ join_check[PlainOption].msg = 1
    /\ join_check[CellOption].msg = 1
    /\ call[CellOption].op = "join_timeout"
    /\ outcome[PlainOption].kind = "panic"

=============================================================================
